---- MODULE Spec2Model ----
(***************************************************************************)
(* Model of the Kathara lab generator (labGenerator.py): derivation of the *)
(* announced networks of a router, rendering of the FRR stanzas into       *)
(* frr.conf, the line-oriented stanza editor and the automatic BGP         *)
(* peering derivations.                                                    *)
(*                                                                         *)
(* Text is modelled line by line.  A line is a record of its indentation   *)
(* (number of leading blanks), its words and its terminator; an address    *)
(* string "o1.o2.o3.o4/p" is the record [a |-> <<o1,o2,o3,o4>>, p |-> p].  *)
(* Only IPv4 is modelled.                                                  *)
(***************************************************************************)
EXTENDS Integers, Sequences, FiniteSets, TLC

VARIABLES
    routers,   \* the topology: router name -> its data (protocols, asn, interfaces, ...)
    files,     \* name -> the frr.conf of the router (or the file being edited)
    startup,   \* name -> the <name>.startup script
    frrdir,    \* name -> etc/frr of the router: daemons and vtysh.conf
    pc,        \* how many routers of the topology have had their files created
    steps,     \* how many operations of the post-creation menu have run
    ran,       \* the peering derivations run since the topology last changed
               \* ("again": one of them has run a second time)
    orig,      \* the stanza editor: the lines of the file before the first call
    marks,     \* the stanza editor: for each line of the file, what wrote it
    ret,       \* the stanza editor: the value the last call returned
    lastcall,  \* the stanza editor: the arguments of the last call
    first_ospf_area,  \* interactive authoring: the OSPF area remembered ("": none yet)
    prompts,   \* the answers the operator gave to the prompts of the last operation
    fn_args,   \* a function called on its own: the arguments of the last call
    fn_result  \* a function called on its own: the value the last call returned

vars ==
    <<routers, files, startup, frrdir, pc, steps, ran, orig, marks, ret, lastcall,
      first_ospf_area, prompts, fn_args, fn_result>>

-----------------------------------------------------------------------------
(* Generic sequence helpers *)

Range(s) == {s[i] : i \in DOMAIN s}

RECURSIVE SeqsUpTo(_, _)
SeqsUpTo(S, n) ==
    IF n = 0 THEN {<<>>}
    ELSE LET shorter == SeqsUpTo(S, n - 1)
         IN  shorter \cup {Append(s, x) : s \in {t \in shorter : Len(t) = n - 1}, x \in S}

RECURSIVE Flatten(_)
Flatten(ss) == IF ss = <<>> THEN <<>> ELSE Head(ss) \o Flatten(Tail(ss))

-----------------------------------------------------------------------------
(* Addresses: ipaddress.ip_interface / ip_network(strict=False) *)

Pow2(k) ==
    CASE k = 0 -> 1 [] k = 1 -> 2 [] k = 2 -> 4 [] k = 3 -> 8 [] k = 4 -> 16
      [] k = 5 -> 32 [] k = 6 -> 64 [] k = 7 -> 128 [] OTHER -> 256

\* how many of the bits of octet i (1..4) a prefix of length p keeps
KeepBits(p, i) ==
    LET k == p - 8 * (i - 1) IN IF k < 0 THEN 0 ELSE IF k > 8 THEN 8 ELSE k

MaskOctet(o, k) == (o \div Pow2(8 - k)) * Pow2(8 - k)

\* the address with the host bits of a /p cleared
Mask(a, p) == [i \in 1..4 |-> MaskOctet(a[i], KeepBits(p, i))]

\* iface.ip of ip_interface(s)
IfaceIp(c) == c.a

\* the string has a "/<prefix>" (an address typed without one has p = -1)
HasPrefix(c) == c.p >= 0

\* ip_interface(s).network, ip_network(s, strict=False): host bits masked; an
\* address without prefix is a /32
IpNetwork(c) ==
    LET plen == IF HasPrefix(c) THEN c.p ELSE 32
    IN  [a |-> Mask(c.a, plen), p |-> plen]

\* str.split('/')[0]
StripCidr(c) == c.a

\* IPv4Network.supernet(): one bit shorter; the /0 is its own supernet
Supernet(n) == IF n.p = 0 THEN n ELSE [a |-> Mask(n.a, n.p - 1), p |-> n.p - 1]

\* big covers small (small.subnet_of(big))
SubnetOf(small, big) == big.p <= small.p /\ Mask(small.a, big.p) = big.a

\* lexicographic order of addresses
AddrLess(x, y) ==
    \E i \in 1..4 : x[i] < y[i] /\ \A j \in 1..(i - 1) : x[j] = y[j]

\* _BaseNetwork.__lt__: by network address, then by netmask
NetLess(m, n) == AddrLess(m.a, n.a) \/ (m.a = n.a /\ m.p < n.p)

RECURSIVE SortNets(_)
SortNets(S) ==
    IF S = {} THEN <<>>
    ELSE LET least == CHOOSE n \in S : \A m \in S \ {n} : NetLess(n, m)
         IN  <<least>> \o SortNets(S \ {least})

\* one round of "Merge consecutive subnets": two nets with the same supernet
MergeStep(S) ==
    S \cup {Supernet(n) : n \in {m \in S : m.p > 0 /\
                \E k \in S : k /= m /\ k.p = m.p /\ Supernet(k) = Supernet(m)}}

RECURSIVE MergeClosure(_)
MergeClosure(S) == IF MergeStep(S) = S THEN S ELSE MergeClosure(MergeStep(S))

\* CollapseAddresses as it would be with a single round of merging
CollapseOneRound(S) ==
    LET all == MergeStep(S)
    IN  SortNets({n \in all : ~ \E m \in all : m /= n /\ SubnetOf(n, m)})

\* ipaddress.collapse_addresses: siblings merged, subsumed subnets skipped, sorted
CollapseAddresses(S) ==
    LET all == MergeClosure(S)
    IN  SortNets({n \in all : ~ \E m \in all : m /= n /\ SubnetOf(n, m)})

collapse_interface_networks(interface_ips) ==
    LET networks == {IpNetwork(interface_ips[i]) : i \in DOMAIN interface_ips}
    IN  IF networks = {} THEN <<>> ELSE CollapseAddresses(networks)

NoNet == [a |-> <<>>, p |-> -1]

\* the chooser as it would be without the preference for /16
choose_first_octet_only(interface_ips) ==
    IF interface_ips = <<>> THEN NoNet
    ELSE LET first == IfaceIp(interface_ips[1])
         IN  IF \A i \in DOMAIN interface_ips : IfaceIp(interface_ips[i])[1] = first[1]
             THEN [a |-> <<first[1], 0, 0, 0>>, p |-> 8]
             ELSE NoNet

\* None when there is no address; o1.o2.0.0/16 when all addresses share two
\* octets; o1.0.0.0/8 when they share one; None otherwise
choose_allowed_byte_aligned_supernet(interface_ips) ==
    IF interface_ips = <<>> THEN NoNet
    ELSE LET octets_list == [i \in DOMAIN interface_ips |-> IfaceIp(interface_ips[i])]
             first       == octets_list[1]
             same_first2 == \A i \in DOMAIN octets_list :
                               /\ octets_list[i][1] = first[1]
                               /\ octets_list[i][2] = first[2]
             same_first1 == \A i \in DOMAIN octets_list : octets_list[i][1] = first[1]
         IN  IF same_first2 THEN [a |-> <<first[1], first[2], 0, 0>>, p |-> 16]
             ELSE IF same_first1 THEN [a |-> <<first[1], 0, 0, 0>>, p |-> 8]
             ELSE NoNet

\* the first octets of the addresses, in first-seen order (the keys of the dict)
RECURSIVE FirstOctetKeys(_)
FirstOctetKeys(interface_ips) ==
    IF interface_ips = <<>> THEN <<>>
    ELSE LET init == FirstOctetKeys(SubSeq(interface_ips, 1, Len(interface_ips) - 1))
             fo   == IfaceIp(interface_ips[Len(interface_ips)])[1]
         IN  IF fo \in Range(init) THEN init ELSE Append(init, fo)

\* groups[fo]: the addresses whose first octet is fo, in input order
GroupOf(interface_ips, fo) == SelectSeq(interface_ips, LAMBDA c : IfaceIp(c)[1] = fo)

-----------------------------------------------------------------------------
(* Text: lines of frr.conf *)

NoIp == <<>>

\* A line of text: `ind` leading blanks, then the words kw, arg, ... ; nl says
\* whether the line ends with a newline (only the last line of a file may not)
Ln(ind, kw, arg, ip, plen, ip2, asn, txt) ==
    [ind |-> ind, kw |-> kw, arg |-> arg, ip |-> ip, plen |-> plen, ip2 |-> ip2,
     asn |-> asn, txt |-> txt, nl |-> TRUE]

Blank == Ln(0, "", "", NoIp, -1, NoIp, <<>>, "")

\* a line of fixed text
Plain(ind, kw, txt) == Ln(ind, kw, "", NoIp, -1, NoIp, <<>>, txt)

\* "router <proto> <asn>" ("router ospf", "router rip": no number)
RouterLine(proto, asn) == Ln(0, "router", proto, NoIp, -1, NoIp, asn, "")

\* "network <cidr>" or "network <cidr> area <area>"
NetworkLine(ind, net, area) ==
    Ln(ind, "network", IF area = "" THEN "" ELSE "area", net.a, net.p, NoIp, <<>>, area)

\* "area <area> stub"
AreaStubLine(ind, area) == Ln(ind, "area", "stub", NoIp, -1, NoIp, <<>>, area)

\* "neighbor <ip> remote-as <asn>"
NeighborRemoteAs(ip, asn) == Ln(0, "neighbor", "remote-as", ip, -1, NoIp, asn, "")

\* "neighbor <ip> description <txt>"
NeighborDescription(ip, txt) == Ln(0, "neighbor", "description", ip, -1, NoIp, <<>>, txt)

\* "neighbor <ip> update-source <src>"
NeighborUpdateSource(ip, src) == Ln(0, "neighbor", "update-source", ip, -1, src, <<>>, "")

\* "neighbor <ip> <arg> <txt>" (prefix-list, route-map)
NeighborPolicy(ind, ip, arg, txt) == Ln(ind, "neighbor", arg, ip, -1, NoIp, <<>>, txt)

\* the line without its terminator
TextOf(l) == [l EXCEPT !.nl = TRUE]

\* '    ' + l
Indent4(l) == [l EXCEPT !.ind = @ + 4]

\* str.lower() on the words that occur capitalised
Lower(w) ==
    CASE w = "Router" -> "router" [] w = "ROUTER" -> "router"
      [] w = "BGP" -> "bgp" [] w = "OSPF" -> "ospf" [] w = "RIP" -> "rip"
      [] OTHER -> w

\* needle in hay, for strings of digits
IsSubSeq(needle, hay) ==
    \E i \in 0..(Len(hay) - Len(needle)) : SubSeq(hay, i + 1, i + Len(needle)) = needle

\* f"neighbor {ip} remote-as" in content
HasNeighborRemoteAs(content, ip) ==
    \E i \in DOMAIN content :
        content[i].kw = "neighbor" /\ content[i].arg = "remote-as" /\ content[i].ip = ip

\* f"neighbor {ip} update-source" in content
HasNeighborUpdateSource(content, ip) ==
    \E i \in DOMAIN content :
        content[i].kw = "neighbor" /\ content[i].arg = "update-source" /\ content[i].ip = ip

-----------------------------------------------------------------------------
(* Files *)

NoFile == [exists |-> FALSE, lines |-> <<>>]

File(lines) == [exists |-> TRUE, lines |-> lines]

\* "\n".join(parts) for parts that each end with a newline: the separator
\* makes an empty line between two parts
RECURSIVE JoinParts(_)
JoinParts(parts) ==
    IF Len(parts) = 0 THEN <<>>
    ELSE IF Len(parts) = 1 THEN parts[1]
    ELSE parts[1] \o <<Blank>> \o JoinParts(Tail(parts))

\* f.write('\n') at the end of a non-empty file
WriteNewline(content) ==
    IF content[Len(content)].nl THEN Append(content, Blank)
    ELSE [content EXCEPT ![Len(content)].nl = TRUE]

-----------------------------------------------------------------------------
(* The stanza editor: insert_lines_into_protocol_block *)

\* the test as it would be if the asn were not looked for in the line
IsTargetHeaderAnyAsn(L, proto, asn) ==
    /\ Lower(L.kw) = "router"
    /\ Lower(L.arg) = proto

\* s.startswith('router <proto>') and, with an asn, str(asn) in L
IsTargetHeader(L, proto, asn) ==
    /\ Lower(L.kw) = "router"
    /\ Lower(L.arg) = proto
    /\ (asn = <<>> \/ IsSubSeq(asn, L.asn))

\* idx: the first header line of the protocol (0: None)
FindHeader(content, proto, asn) ==
    LET hits == {i \in DOMAIN content : IsTargetHeader(content[i], proto, asn)}
    IN  IF hits = {} THEN 0 ELSE CHOOSE i \in hits : \A k \in hits : i <= k

\* the scan as it would be if a '!' line ended the block
InBlockWithoutComment(line) == line.ind > 0 \/ line.kw = ""

\* a line the scan of the block passes over: indented, empty, or '!'
InBlock(line) == line.ind > 0 \/ line.kw = "" \/ line.kw = "!"

\* j: the first line after idx that ends the block (Len + 1: end of file)
BlockEnd(content, idx) ==
    LET stops == {k \in (idx + 1)..Len(content) : ~ InBlock(content[k])}
    IN  IF stops = {} THEN Len(content) + 1 ELSE CHOOSE k \in stops : \A m \in stops : k <= m

\* content[j-1] gets its newline
FixNewline(content, j) ==
    IF j > 1 /\ ~ content[j - 1].nl THEN [content EXCEPT ![j - 1].nl = TRUE] ELSE content

\* the insertion as it would be if it replaced the line at j: content[j+1:]
InsertAtOverwriting(content, j, lines) ==
    LET fixed == FixNewline(content, j)
    IN  SubSeq(fixed, 1, j - 1) \o [i \in DOMAIN lines |-> Indent4(lines[i])]
          \o SubSeq(fixed, j + 1, Len(fixed))

\* new_content = content[:j] + indented lines + content[j:]
InsertAt(content, j, lines) ==
    LET fixed == FixNewline(content, j)
    IN  SubSeq(fixed, 1, j - 1) \o [i \in DOMAIN lines |-> Indent4(lines[i])]
          \o SubSeq(fixed, j, Len(fixed))

\* the fallback as it would be without the separating newline
AppendAtEndUnseparated(content, lines) == content \o lines

\* the fallback: append at the end of the file, after a newline if not empty
AppendAtEnd(content, lines) ==
    (IF content /= <<>> THEN WriteNewline(content) ELSE content) \o lines

\* the whole call: the file afterwards, the value returned, whether the header
\* was found and where the lines went
insert_lines_into_protocol_block(f, proto, asn, lines) ==
    IF ~ f.exists THEN [file |-> f, ret |-> FALSE, found |-> FALSE, at |-> 0]
    ELSE LET content == f.lines
             idx     == FindHeader(content, proto, asn)
         IN  IF idx = 0
             THEN [file  |-> File(AppendAtEnd(content, lines)), ret |-> TRUE,
                   found |-> FALSE,
                   at    |-> Len(AppendAtEnd(content, lines)) - Len(lines) + 1]
             ELSE [file  |-> File(InsertAt(content, BlockEnd(content, idx), lines)),
                   ret   |-> TRUE, found |-> TRUE, at |-> BlockEnd(content, idx)]

\* the lines of the stanza headed at idx: the header and its block
StanzaAt(content, idx) == SubSeq(content, idx, BlockEnd(content, idx) - 1)

-----------------------------------------------------------------------------
(* FRR stanza builders *)

\* redistribute=None: no directive asked for
None == <<>>

RECURSIVE DedupSeq(_)
DedupSeq(s) ==
    IF s = <<>> THEN <<>>
    ELSE LET init == DedupSeq(SubSeq(s, 1, Len(s) - 1))
         IN  IF s[Len(s)] \in Range(init) THEN init ELSE Append(init, s[Len(s)])

\* "\n".join(lines) + "\n\n": the lines and one empty line
StanzaText(lines) == Append(lines, Blank)

mk_bgp_stanza(asn, redistribute, networks) ==
    LET normal == DedupSeq([i \in DOMAIN networks |-> IpNetwork(networks[i])])
    IN  StanzaText(<<RouterLine("bgp", asn),
                     Plain(4, "no", "bgp ebgp-requires-policy"),
                     Plain(4, "no", "bgp network import-check")>>
                   \o [i \in DOMAIN normal |-> NetworkLine(4, normal[i], "")])

mk_ospf_stanza(networks, area, stub, redistribute) ==
    LET nets      == [i \in DOMAIN networks |-> IpNetwork(networks[i])]
        collapsed == CollapseAddresses(Range(nets))
        cand      == choose_allowed_byte_aligned_supernet(nets)
        netlines  == IF networks = <<>> THEN <<>>
                     ELSE IF cand /= NoNet THEN <<NetworkLine(4, cand, area)>>
                     ELSE [i \in DOMAIN collapsed |-> NetworkLine(4, collapsed[i], area)]
        stublines == IF stub /\ area /= "" THEN <<AreaStubLine(0, area)>> ELSE <<>>
    IN  StanzaText(<<RouterLine("ospf", <<>>)>> \o netlines \o stublines)

\* mk_rip_stanza as it would be if it wrote the directives it is handed
mk_rip_stanza_redistributing(networks, redistribute) ==
    StanzaText(<<RouterLine("rip", <<>>)>>
               \o [i \in DOMAIN networks |-> NetworkLine(4, networks[i], "")]
               \o [i \in DOMAIN redistribute |-> Plain(4, "redistribute", redistribute[i])])

mk_rip_stanza(networks, redistribute) ==
    StanzaText(<<RouterLine("rip", <<>>)>>
               \o [i \in DOMAIN networks |-> NetworkLine(4, networks[i], "")])

\* area_sort_key: 0.0.0.0 first, then by the text of the area id
AreaLess(x, y) ==
    LET rank(z) == CASE z = "0.0.0.0" -> 0 [] z = "1.1.1.1" -> 1 [] z = "2.2.2.2" -> 2
                     [] z = "3.3.3.3" -> 3 [] OTHER -> 4
    IN  rank(x) < rank(y)

RECURSIVE SortAreas(_)
SortAreas(S) ==
    IF S = {} THEN <<>>
    ELSE LET least == CHOOSE x \in S : \A y \in S \ {x} : AreaLess(x, y)
         IN  <<least>> \o SortAreas(S \ {least})

\* format_ospf_multi_area as it would be with the stub declarations written
\* first and the areas in the order of the map
format_ospf_stubs_first(area_nets_map, stub_areas) ==
    LET stubs == SortAreas(stub_areas)
    IN  StanzaText(<<RouterLine("ospf", <<>>)>>
                   \o [i \in DOMAIN stubs |-> AreaStubLine(4, stubs[i])]
                   \o Flatten([i \in DOMAIN area_nets_map |->
                                 [j \in DOMAIN area_nets_map[i][2] |->
                                     NetworkLine(4, area_nets_map[i][2][j],
                                                 area_nets_map[i][1])]]))

\* area_nets_map: a sequence of <<area, nets>> pairs with distinct areas
format_ospf_multi_area(area_nets_map, stub_areas) ==
    LET areas    == SortAreas({area_nets_map[i][1] : i \in DOMAIN area_nets_map})
        netsOf(x) == (CHOOSE i \in DOMAIN area_nets_map : area_nets_map[i][1] = x)
        linesOf(x) == LET ns == area_nets_map[netsOf(x)][2]
                      IN  [i \in DOMAIN ns |-> NetworkLine(4, ns[i], x)]
        stubs    == SortAreas(stub_areas)
    IN  StanzaText(<<RouterLine("ospf", <<>>)>>
                   \o Flatten([i \in DOMAIN areas |-> linesOf(areas[i])])
                   \o [i \in DOMAIN stubs |-> AreaStubLine(4, stubs[i])])

-----------------------------------------------------------------------------
(* crea_router_files *)

FRR_HEADER ==
    <<Plain(0, "password", "zebra"), Plain(0, "enable", "password zebra"), Blank,
      Plain(0, "log", "file /var/log/frr/frr.log")>>

BgpDebug ==
    <<Plain(0, "debug", "bgp keepalives"), Plain(0, "debug", "bgp updates in"),
      Plain(0, "debug", "bgp updates out")>>

\* "ip address add <cidr> dev <dev>"
IpAddressAdd(c, dev) == Ln(0, "ip", dev, c.a, c.p, NoIp, <<>>, "address add")

SystemctlStart == Plain(0, "systemctl", "start frr")

\* only_static as it would be if the static token were not looked at
only_static_overlooked(data) == FALSE

only_static(data) ==
    "statico" \in data.protocols /\ \A q \in data.protocols : q = "statico"

ip_cfg_lines(data) ==
    [i \in DOMAIN data.interfaces |->
        IpAddressAdd(data.interfaces[i].ip, data.interfaces[i].name)]
    \o [i \in DOMAIN data.loopbacks |-> IpAddressAdd(data.loopbacks[i], "lo")]

\* "\n".join(startup_lines) + "\n"
StaticStartup(data) ==
    IF ip_cfg_lines(data) = <<>> THEN <<Blank>> ELSE ip_cfg_lines(data)

\* STARTUP_ROUTER_TMPL.format(ip_config="\n".join(ip_cfg_lines))
RouterStartup(data) ==
    (IF ip_cfg_lines(data) = <<>> THEN <<Blank>> ELSE ip_cfg_lines(data))
    \o <<Blank, SystemctlStart>>

phys_iface_ips(data) == [i \in DOMAIN data.interfaces |-> data.interfaces[i].ip]

combined_ips(data) == phys_iface_ips(data) \o data.loopbacks

\* original_nets as it would be if the physical networks were collapsed first
original_nets_collapsed(data) == collapse_interface_networks(phys_iface_ips(data))

\* one network per physical interface, host bits masked, in interface order
original_nets(data) ==
    [i \in DOMAIN data.interfaces |-> IpNetwork(data.interfaces[i].ip)]

aggregated_nets(data) == collapse_interface_networks(combined_ips(data))

\* ChosenOrCollapsed as it would be if the whole address space stood in for a
\* missing choice
ChosenOrEverything(ips, fallback) ==
    LET chosen == choose_allowed_byte_aligned_supernet(ips)
    IN  IF chosen /= NoNet THEN <<chosen>> ELSE <<[a |-> <<0, 0, 0, 0>>, p |-> 0]>>

\* [chosen] if chosen else the collapsed networks of `fallback`
ChosenOrCollapsed(ips, fallback) ==
    LET chosen == choose_allowed_byte_aligned_supernet(ips)
    IN  IF chosen /= NoNet THEN <<chosen>> ELSE collapse_interface_networks(fallback)

\* max(groups.keys(), key=lambda k: len(groups[k])): the first largest group
main_key(data) ==
    LET keys == FirstOctetKeys(combined_ips(data))
        size(k) == Len(GroupOf(combined_ips(data), k))
        best == CHOOSE i \in DOMAIN keys :
                    /\ \A j \in DOMAIN keys : size(keys[j]) <= size(keys[i])
                    /\ \A j \in 1..(i - 1) : size(keys[j]) < size(keys[i])
    IN  keys[best]

\* sorted(groups.keys()) without the main key
RECURSIVE SortInts(_)
SortInts(S) ==
    IF S = {} THEN <<>>
    ELSE LET least == CHOOSE x \in S : \A y \in S : x <= y
         IN  <<least>> \o SortInts(S \ {least})

other_keys(data) == SortInts(Range(FirstOctetKeys(combined_ips(data))) \ {main_key(data)})

\* the multi-area branch is taken: OSPF and more than one first-octet group
MultiAreaData(data) ==
    "ospf" \in data.protocols /\ Len(FirstOctetKeys(combined_ips(data))) > 1

\* the groups for which the operator is asked an area
asked_keys(data) ==
    SelectSeq(other_keys(data), LAMBDA k : ~ \E e \in data.ospf_extra_areas : e.k = k)

\* area_nets.setdefault(area, []).extend(nets)
AddNets(area_nets, area, nets) ==
    IF \E i \in DOMAIN area_nets : area_nets[i][1] = area
    THEN [i \in DOMAIN area_nets |->
             IF area_nets[i][1] = area THEN <<area, area_nets[i][2] \o nets>>
             ELSE area_nets[i]]
    ELSE Append(area_nets, <<area, nets>>)

\* the loopbacks appended to the nets of the main area unless already there
RECURSIVE AddLoopbackNets(_, _)
AddLoopbackNets(nets, loopbacks) ==
    IF loopbacks = <<>> THEN nets
    ELSE LET lb_net == IpNetwork(Head(loopbacks))
         IN  AddLoopbackNets(IF lb_net \in Range(nets) THEN nets ELSE Append(nets, lb_net),
                             Tail(loopbacks))

\* the area of a group: pre-supplied, or the operator's answer, or the
\* placeholder stub area 1.1.1.1 on an empty answer
AreaOfGroup(data, k, answer) ==
    IF \E e \in data.ospf_extra_areas : e.k = k
    THEN LET e == CHOOSE e \in data.ospf_extra_areas : e.k = k
         IN  [area |-> e.area, stub |-> e.stub]
    ELSE IF answer.area /= "" THEN answer
    ELSE [area |-> "1.1.1.1", stub |-> TRUE]

\* the loop over the other groups; `answers` holds the operator's answers for
\* the groups he is asked about, in order
RECURSIVE PlanOtherGroups(_, _, _, _)
PlanOtherGroups(data, keys, answers, plan) ==
    IF keys = <<>> THEN plan
    ELSE LET k       == Head(keys)
             asked   == ~ \E e \in data.ospf_extra_areas : e.k = k
             info    == AreaOfGroup(data, k, IF asked THEN Head(answers) ELSE [area |-> "", stub |-> FALSE])
             group_ips == GroupOf(combined_ips(data), k)
             nets_g  == ChosenOrCollapsed(group_ips \o data.loopbacks, group_ips)
         IN  PlanOtherGroups(data, Tail(keys),
                             IF asked THEN Tail(answers) ELSE answers,
                             [area_nets  |-> AddNets(plan.area_nets, info.area, nets_g),
                              stub_areas |-> IF info.stub THEN plan.stub_areas \cup {info.area}
                                             ELSE plan.stub_areas])

\* main_area_id as it would be without the default to the backbone
main_area_id_unset(data) == data.ospf_area

main_area_id(data) == IF data.ospf_area /= "" THEN data.ospf_area ELSE "0.0.0.0"

\* the multi-area plan: area -> nets, and the stub areas
ospf_multi_area_plan(data, answers) ==
    LET main_ips  == GroupOf(combined_ips(data), main_key(data))
        nets_main == ChosenOrCollapsed(main_ips \o data.loopbacks, main_ips)
        start     == [area_nets  |-> <<<<main_area_id(data),
                                         AddLoopbackNets(nets_main, data.loopbacks)>>>>,
                      stub_areas |-> IF data.ospf_area_stub THEN {main_area_id(data)} ELSE {}]
    IN  PlanOtherGroups(data, other_keys(data), answers, start)

ospf_part(data, answers) ==
    IF Len(FirstOctetKeys(combined_ips(data))) <= 1
    THEN mk_ospf_stanza(ChosenOrCollapsed(combined_ips(data), combined_ips(data)),
                        data.ospf_area, data.ospf_area_stub, None)
    ELSE LET plan == ospf_multi_area_plan(data, answers)
         IN  format_ospf_multi_area(plan.area_nets, plan.stub_areas)

rip_part(data) ==
    mk_rip_stanza(ChosenOrCollapsed(combined_ips(data), combined_ips(data)), None)

bgp_part(data) == mk_bgp_stanza(data.asn, None, original_nets(data))

\* the text written to frr.conf
frr_conf(data, answers) ==
    JoinParts(<<FRR_HEADER>>
              \o (IF "bgp" \in data.protocols THEN <<BgpDebug>> ELSE <<>>)
              \o (IF "bgp" \in data.protocols THEN <<bgp_part(data)>> ELSE <<>>)
              \o (IF "ospf" \in data.protocols THEN <<ospf_part(data, answers)>> ELSE <<>>)
              \o (IF "rip" \in data.protocols THEN <<rip_part(data)>> ELSE <<>>))

NoFrrDir == [exists |-> FALSE, ripd |-> "no", ospfd |-> "no", bgpd |-> "no", hostname |-> ""]

\* etc/frr: the daemons file and vtysh.conf
frr_dir(rname, data) ==
    [exists   |-> TRUE,
     ripd     |-> IF "rip" \in data.protocols THEN "yes" ELSE "no",
     ospfd    |-> IF "ospf" \in data.protocols THEN "yes" ELSE "no",
     bgpd     |-> IF "bgp" \in data.protocols THEN "yes" ELSE "no",
     hostname |-> rname]

-----------------------------------------------------------------------------
(* Automatic BGP peering *)

\* the routers in the order of the dictionary (the order they were added in)
Names == <<"r1", "r2", "r3", "r4", "r5">>

RouterOrder(rs) == SelectSeq(Names, LAMBDA n : n \in DOMAIN rs)

\* f"Router {r}"
RouterDesc(r) ==
    CASE r = "r1" -> "Router r1" [] r = "r2" -> "Router r2" [] OTHER -> "Router r3"

\* f"peer_{dst}"
PeerDesc(dst) ==
    CASE dst = "r1" -> "peer_r1" [] dst = "r2" -> "peer_r2" [] OTHER -> "peer_r3"

\* every (router, interface) of the topology, in dictionary and list order
AllMembers(rs) ==
    Flatten([i \in DOMAIN RouterOrder(rs) |->
        LET rname == RouterOrder(rs)[i]
            ifs   == rs[rname].interfaces
        IN  [k \in DOMAIN ifs |-> [r |-> rname, ip |-> ifs[k].ip, lan |-> ifs[k].lan]]])

\* lan_map: the LAN ids in first-seen order (an empty LAN id is skipped)
RECURSIVE LanKeys(_)
LanKeys(members) ==
    IF members = <<>> THEN <<>>
    ELSE LET init == LanKeys(SubSeq(members, 1, Len(members) - 1))
             lan  == members[Len(members)].lan
         IN  IF lan = "" \/ lan \in Range(init) THEN init ELSE Append(init, lan)

\* lan_map[lan]
LanMembers(rs, lan) == SelectSeq(AllMembers(rs), LAMBDA m : m.lan = lan)

\* a call add_neighbor_if_missing(base_path, src, neigh_ip, neigh_asn, desc)
NeighborCall(src, ip, asn, desc) == [src |-> src, ip |-> ip, asn |-> asn, desc |-> desc]

\* the calls for one LAN as they would be if only the first router of a pair
\* were given its neighbor
LanCallsOneWay(rs, lan) ==
    LET members == LanMembers(rs, lan)
        n       == Len(members)
        pairs   == Flatten([i \in 1..n |-> [d \in 1..(n - i) |-> <<i, i + d>>]])
        calls(pr) ==
            LET m1 == members[pr[1]]
                m2 == members[pr[2]]
            IN  IF "bgp" \in rs[m1.r].protocols /\ "bgp" \in rs[m2.r].protocols
                THEN <<NeighborCall(m1.r, m2.ip, rs[m2.r].asn, RouterDesc(m2.r))>>
                ELSE <<>>
    IN  IF n < 2 THEN <<>> ELSE Flatten([k \in DOMAIN pairs |-> calls(pairs[k])])

\* the calls made for one LAN: for i < j, both routers with BGP, one call per side
LanCalls(rs, lan) ==
    LET members == LanMembers(rs, lan)
        n       == Len(members)
        pairs   == Flatten([i \in 1..n |-> [d \in 1..(n - i) |-> <<i, i + d>>]])
        both(pr) == /\ "bgp" \in rs[members[pr[1]].r].protocols
                    /\ "bgp" \in rs[members[pr[2]].r].protocols
        calls(pr) ==
            LET m1 == members[pr[1]]
                m2 == members[pr[2]]
            IN  IF both(pr)
                THEN <<NeighborCall(m1.r, m2.ip, rs[m2.r].asn, RouterDesc(m2.r)),
                       NeighborCall(m2.r, m1.ip, rs[m1.r].asn, RouterDesc(m1.r))>>
                ELSE <<>>
    IN  IF n < 2 THEN <<>> ELSE Flatten([k \in DOMAIN pairs |-> calls(pairs[k])])

\* every call of auto_generate_bgp_neighbors, in order
AutoCalls(rs) ==
    LET lans == LanKeys(AllMembers(rs))
    IN  Flatten([i \in DOMAIN lans |-> LanCalls(rs, lans[i])])

\* add_neighbor_if_missing as it would be without the check for an existing line
add_neighbor_unchecked(f, call) ==
    IF ~ f.exists THEN f
    ELSE insert_lines_into_protocol_block(f, "bgp", <<>>,
             <<NeighborRemoteAs(StripCidr(call.ip), call.asn),
               NeighborDescription(StripCidr(call.ip), call.desc)>>).file

\* the file of src_router after add_neighbor_if_missing
add_neighbor_if_missing(f, call) ==
    IF ~ f.exists THEN f
    ELSE IF HasNeighborRemoteAs(f.lines, StripCidr(call.ip)) THEN f
    ELSE insert_lines_into_protocol_block(f, "bgp", <<>>,
             <<NeighborRemoteAs(StripCidr(call.ip), call.asn),
               NeighborDescription(StripCidr(call.ip), call.desc)>>).file

RECURSIVE ApplyNeighborCalls(_, _)
ApplyNeighborCalls(fs, calls) ==
    IF calls = <<>> THEN fs
    ELSE LET c == Head(calls)
         IN  ApplyNeighborCalls([fs EXCEPT ![c.src] = add_neighbor_if_missing(fs[c.src], c)],
                                Tail(calls))

auto_generate_bgp_neighbors(rs, fs) == ApplyNeighborCalls(fs, AutoCalls(rs))

\* the pairs as they would be if the ASNs of the two routers were not compared
IbgpPairsAnyAsn(rs) ==
    LET names == RouterOrder(rs)
        n     == Len(names)
        pairs == Flatten([i \in 1..n |-> [d \in 1..(n - i) |-> <<names[i], names[i + d]>>]])
    IN  SelectSeq(pairs, LAMBDA pr :
            /\ "bgp" \in rs[pr[1]].protocols
            /\ "bgp" \in rs[pr[2]].protocols
            /\ rs[pr[1]].asn /= <<>>
            /\ rs[pr[1]].loopbacks /= <<>>
            /\ rs[pr[2]].loopbacks /= <<>>)

\* the (n1, n2) of add_ibgp_loopback_neighbors that reach _ensure_pair
IbgpPairs(rs) ==
    LET names == RouterOrder(rs)
        n     == Len(names)
        pairs == Flatten([i \in 1..n |-> [d \in 1..(n - i) |-> <<names[i], names[i + d]>>]])
    IN  SelectSeq(pairs, LAMBDA pr :
            /\ "bgp" \in rs[pr[1]].protocols
            /\ "bgp" \in rs[pr[2]].protocols
            /\ rs[pr[1]].asn /= <<>>
            /\ rs[pr[1]].asn = rs[pr[2]].asn
            /\ rs[pr[1]].loopbacks /= <<>>
            /\ rs[pr[2]].loopbacks /= <<>>)

\* to_add_local: what r_local lacks to speak with r_peer
IbgpToAdd(content, lb_peer, lb_local, asn) ==
    (IF ~ HasNeighborRemoteAs(content, lb_peer)
        THEN <<NeighborRemoteAs(lb_peer, asn)>> ELSE <<>>)
    \o (IF ~ HasNeighborUpdateSource(content, lb_peer)
        THEN <<NeighborUpdateSource(lb_peer, lb_local)>> ELSE <<>>)

\* one side of _ensure_pair
IbgpInsert(f, lb_peer, lb_local, asn) ==
    LET to_add == IbgpToAdd(f.lines, lb_peer, lb_local, asn)
    IN  IF to_add = <<>> THEN f
        ELSE insert_lines_into_protocol_block(f, "bgp", asn, to_add).file

\* _ensure_pair as it would be if only r_local were configured
ensure_pair_local_only(rs, fs, r_local, r_peer) ==
    LET asn      == rs[r_local].asn
        lb_local == StripCidr(rs[r_local].loopbacks[1])
        lb_peer  == StripCidr(rs[r_peer].loopbacks[1])
    IN  IF ~ fs[r_local].exists \/ ~ fs[r_peer].exists THEN fs
        ELSE [fs EXCEPT ![r_local] = IbgpInsert(fs[r_local], lb_peer, lb_local, asn)]

ensure_pair(rs, fs, r_local, r_peer) ==
    LET asn      == rs[r_local].asn
        lb_local == StripCidr(rs[r_local].loopbacks[1])
        lb_peer  == StripCidr(rs[r_peer].loopbacks[1])
    IN  IF ~ fs[r_local].exists \/ ~ fs[r_peer].exists THEN fs
        ELSE [fs EXCEPT ![r_local] = IbgpInsert(fs[r_local], lb_peer, lb_local, asn),
                        ![r_peer]  = IbgpInsert(fs[r_peer], lb_local, lb_peer, asn)]

RECURSIVE ApplyPairs(_, _, _)
ApplyPairs(rs, fs, pairs) ==
    IF pairs = <<>> THEN fs
    ELSE ApplyPairs(rs, ensure_pair(rs, fs, Head(pairs)[1], Head(pairs)[2]), Tail(pairs))

add_ibgp_loopback_neighbors(rs, fs) == ApplyPairs(rs, fs, IbgpPairs(rs))

-----------------------------------------------------------------------------
(* The topology *)

Iface(name, lan, ip) == [name |-> name, lan |-> lan, ip |-> ip]

Cidr(o1, o2, o3, o4, p) == [a |-> <<o1, o2, o3, o4>>, p |-> p]

Data(protocols, asn, interfaces, loopbacks, area, stub, extra) ==
    [protocols |-> protocols, asn |-> asn, interfaces |-> interfaces,
     loopbacks |-> loopbacks, ospf_area |-> area, ospf_area_stub |-> stub,
     ospf_extra_areas |-> extra]

IfName(i) == CASE i = 1 -> "eth0" [] i = 2 -> "eth1" [] i = 3 -> "eth2" [] OTHER -> "eth3"

\* the answers the operator may give when asked the area of a group
Answers ==
    {[area |-> "", stub |-> FALSE], [area |-> "2.2.2.2", stub |-> FALSE],
     [area |-> "3.3.3.3", stub |-> TRUE]}

RECURSIVE SeqsOfLen(_, _)
SeqsOfLen(S, n) ==
    IF n = 0 THEN {<<>>} ELSE {Append(s, x) : s \in SeqsOfLen(S, n - 1), x \in S}

NoEdit == <<>>

\* bounds of the model
MaxIfaces == 2

MaxLoopbacks == 1

MaxOps == 1

MaxInserts == 2

MaxFileLen == 4

MaxRouters == 3

MaxNets == 3

-----------------------------------------------------------------------------
(* Operations *)

\* crea_router_files for the next router of the topology
CreaRouterFiles ==
    /\ pc < Len(RouterOrder(routers))
    /\ LET rname == RouterOrder(routers)[pc + 1]
           data  == routers[rname]
       IN  IF only_static(data)
           THEN /\ startup' = [startup EXCEPT ![rname] = File(StaticStartup(data))]
                /\ prompts' = <<>>
                /\ UNCHANGED <<files, frrdir>>
           ELSE \E answers \in SeqsOfLen(Answers,
                        IF "ospf" \in data.protocols
                           /\ Len(FirstOctetKeys(combined_ips(data))) > 1
                        THEN Len(asked_keys(data)) ELSE 0) :
                /\ files' = [files EXCEPT ![rname] = File(frr_conf(data, answers))]
                /\ frrdir' = [frrdir EXCEPT ![rname] = frr_dir(rname, data)]
                /\ startup' = [startup EXCEPT ![rname] = File(RouterStartup(data))]
                /\ prompts' = answers
    /\ pc' = pc + 1
    /\ UNCHANGED <<routers, steps, ran, orig, marks, ret, lastcall>>
    /\ UNCHANGED <<first_ospf_area, fn_args, fn_result>>

Created == pc = Len(RouterOrder(routers))

AutoGenerateBgpNeighbors ==
    /\ Created
    /\ files' = auto_generate_bgp_neighbors(routers, files)
    /\ ran' = ran \cup {IF "auto" \in ran THEN "again" ELSE "auto"}
    /\ UNCHANGED <<routers, startup, frrdir, pc, steps, orig, marks, ret, lastcall>>
    /\ UNCHANGED <<first_ospf_area, prompts, fn_args, fn_result>>

AddIbgpLoopbackNeighbors ==
    /\ Created
    /\ files' = add_ibgp_loopback_neighbors(routers, files)
    /\ ran' = ran \cup {IF "ibgp" \in ran THEN "again" ELSE "ibgp"}
    /\ UNCHANGED <<routers, startup, frrdir, pc, steps, orig, marks, ret, lastcall>>
    /\ UNCHANGED <<first_ospf_area, prompts, fn_args, fn_result>>

\* the <name>.startup script after aggiungi_loopback_menu
StartupWithLoopback(st, ipcidr) ==
    LET lines   == st.lines
        lb_line == IpAddressAdd(ipcidr, "lo")
        same(l) == [l EXCEPT !.ind = 0, !.nl = TRUE] = lb_line
        starts  == {i \in DOMAIN lines : lines[i].kw = "systemctl"}
        at      == CHOOSE i \in starts : \A k \in starts : i <= k
    IN  IF \E i \in DOMAIN lines : same(lines[i]) THEN st
        ELSE IF starts = {}
        THEN File((IF lines = <<>> THEN lines ELSE FixNewline(lines, Len(lines) + 1))
                  \o <<lb_line>>)
        ELSE File(SubSeq(lines, 1, at - 1) \o <<lb_line>> \o SubSeq(lines, at, Len(lines)))

\* FrrWithLoopback as it would be if the loopback were announced in BGP too
FrrWithLoopbackInBgp(f, data, ipcidr, area_answer) ==
    LET f1 == IF "bgp" \in data.protocols
              THEN insert_lines_into_protocol_block(f, "bgp", <<>>,
                       <<NetworkLine(0, ipcidr, "")>>).file
              ELSE f
    IN  IF "rip" \in data.protocols
        THEN insert_lines_into_protocol_block(f1, "rip", <<>>,
                 <<NetworkLine(0, ipcidr, "")>>).file
        ELSE f1

\* frr.conf of the target after the announcements of the loopback are inserted
FrrWithLoopback(f, data, ipcidr, area_answer) ==
    LET area == IF data.ospf_area /= "" THEN data.ospf_area
                ELSE IF area_answer /= "" THEN area_answer ELSE "0.0.0.0"
        f1   == IF "ospf" \in data.protocols
                THEN insert_lines_into_protocol_block(f, "ospf", <<>>,
                         <<NetworkLine(0, ipcidr, area)>>).file
                ELSE f
    IN  IF "rip" \in data.protocols
        THEN insert_lines_into_protocol_block(f1, "rip", <<>>,
                 <<NetworkLine(0, ipcidr, "")>>).file
        ELSE f1

\* aggiungi_loopback_menu for a router of the topology
AggiungiLoopback(target, ip_only, area_answer) ==
    /\ Created
    /\ steps < MaxOps
    /\ LET ipcidr == [a |-> ip_only, p |-> 32]
           rs     == [routers EXCEPT ![target].loopbacks =
                         IF ipcidr \in Range(@) THEN @ ELSE Append(@, ipcidr)]
       IN  /\ routers' = rs
           /\ startup' = [startup EXCEPT ![target] = StartupWithLoopback(@, ipcidr)]
           /\ files' = IF files[target].exists
                       THEN add_ibgp_loopback_neighbors(rs,
                                [files EXCEPT ![target] =
                                    FrrWithLoopback(@, routers[target], ipcidr, area_answer)])
                       ELSE files
    /\ steps' = steps + 1
    /\ ran' = {}
    /\ UNCHANGED <<frrdir, pc, orig, marks, ret, lastcall>>
    /\ UNCHANGED <<first_ospf_area, prompts, fn_args, fn_result>>

\* with open(fpath, 'a'): the lines written at the end of the file
AppendText(f, lines) == File(f.lines \o lines)

\* the prefix-lists and the route-map aggiungi_relazioni_bgp_menu appends
RelationPolicy(neigh_ip, dst) ==
    <<NeighborPolicy(0, neigh_ip, "prefix-list", "peer_in in"),
      NeighborPolicy(0, neigh_ip, "prefix-list", "peer_out out"),
      Blank,
      Plain(0, "ip", "prefix-list peer_in permit any"),
      Plain(0, "ip", "prefix-list peer_out permit any"),
      Blank,
      Plain(0, "route-map", "pref_in permit 10"),
      Plain(4, "set", "local-preference 100"),
      Blank,
      NeighborPolicy(0, neigh_ip, "route-map", "pref_in in")>>

\* aggiungi_relazioni_bgp_menu: a manual peer relation from src to dst
AggiungiRelazioneBgp(src, dst, neigh_ip, aggiungi_policy) ==
    /\ Created
    /\ steps < MaxOps
    /\ "bgp" \in routers[src].protocols
    /\ "bgp" \in routers[dst].protocols
    /\ LET f1 == insert_lines_into_protocol_block(files[src], "bgp", <<>>,
                     <<NeighborRemoteAs(neigh_ip, routers[dst].asn),
                       NeighborDescription(neigh_ip, PeerDesc(dst))>>).file
       IN  files' = [files EXCEPT ![src] =
                        IF aggiungi_policy THEN AppendText(f1, RelationPolicy(neigh_ip, dst))
                        ELSE f1]
    /\ steps' = steps + 1
    /\ UNCHANGED <<routers, startup, frrdir, pc, ran, orig, marks, ret, lastcall>>
    /\ UNCHANGED <<first_ospf_area, prompts, fn_args, fn_result>>

\* ensure_neighbor_exists: the remote-as line is created with the asn asked for
ensure_neighbor_exists(f, neigh_ip, asn) ==
    IF HasNeighborRemoteAs(f.lines, neigh_ip) THEN f
    ELSE insert_lines_into_protocol_block(f, "bgp", <<>>,
             <<NeighborRemoteAs(neigh_ip, asn)>>).file

\* policies_menu, choice 1: a prefix-list denying `rete`, bound to the neighbor
PoliciesPrefixList(src, neigh_ip, asn, rete) ==
    /\ Created
    /\ steps < MaxOps
    /\ "bgp" \in routers[src].protocols
    /\ files[src].exists
    /\ LET f1 == ensure_neighbor_exists(files[src], neigh_ip, asn)
           f2 == AppendText(f1, <<Blank,
                                  Ln(0, "ip", "deny", IpNetwork(rete).a, IpNetwork(rete).p,
                                     NoIp, <<>>, "prefix-list PL"),
                                  Plain(0, "ip", "prefix-list PL permit any"),
                                  Blank>>)
       IN  files' = [files EXCEPT ![src] =
                        insert_lines_into_protocol_block(f2, "bgp", <<>>,
                            <<NeighborPolicy(0, neigh_ip, "prefix-list", "PL in")>>).file]
    /\ steps' = steps + 1
    /\ UNCHANGED <<routers, startup, frrdir, pc, ran, orig, marks, ret, lastcall>>
    /\ UNCHANGED <<first_ospf_area, prompts, fn_args, fn_result>>

\* main(), the questions about OSPF: the area of the router, given the area
\* remembered so far and the answers typed.  The first OSPF router is asked
\* whether it is in the backbone ("s") and, if not, its area; a later one is
\* asked its area, the empty answer standing for the remembered one
ospf_area_unremembered(first_area, typed) ==
    IF first_area = "" THEN (IF typed[1] = "s" THEN "0.0.0.0" ELSE typed[2])
    ELSE IF typed[1] /= "" THEN typed[1] ELSE "0.0.0.0"

ospf_area_for(first_area, typed) ==
    IF first_area = "" THEN (IF typed[1] = "s" THEN "0.0.0.0" ELSE typed[2])
    ELSE IF typed[1] /= "" THEN typed[1] ELSE first_area

ospf_stub_for(first_area, typed) ==
    IF first_area = "" THEN typed[1] /= "s"
    ELSE typed[1] /= "" /\ typed[2] = "s"

\* the answers that can be typed to the questions about OSPF
TypedFor(protocols, first_area) ==
    IF "ospf" \notin protocols THEN {<<>>}
    ELSE IF first_area = "" THEN {<<"s">>, <<"n", "1.1.1.1">>, <<"n", "2.2.2.2">>}
    ELSE {<<"">>, <<"2.2.2.2", "s">>, <<"0.0.0.0", "n">>, <<"3.3.3.3", "n">>}

\* used_ips: the addresses given to the interfaces so far
used_ips(rs) ==
    UNION {{rs[r].interfaces[i].ip.a : i \in DOMAIN rs[r].interfaces} : r \in DOMAIN rs}

\* the address the prompt suggests for interface idx of router i, 10.0.<i>.<idx>/24
SuggestedIp(i, idx) == Cidr(10, 0, i, idx, 24)

\* main(), one turn of the loop over the routers: the router is asked its
\* protocols, AS number, OSPF area and interfaces, and its files are created
ConfiguraRouter(protocols, asn, typed, ips) ==
    /\ Cardinality(DOMAIN routers) < MaxRouters
    /\ Cardinality(DOMAIN routers) < Len(Names)
    /\ ("bgp" \in protocols) = (asn /= <<>>)
    /\ typed \in TypedFor(protocols, first_ospf_area)
    /\ Len(ips) >= 1
    /\ \A i \in DOMAIN ips :
          /\ HasPrefix(ips[i])
          /\ ips[i].a \notin used_ips(routers)
          /\ \A j \in 1..(i - 1) : ips[j].a /= ips[i].a
    /\ LET rname == Names[Cardinality(DOMAIN routers) + 1]
           ospf  == "ospf" \in protocols
           ifs   == [i \in DOMAIN ips |-> Iface(IfName(i), "A", ips[i])]
           data  == Data(protocols, asn, ifs, <<>>,
                         IF ospf THEN ospf_area_for(first_ospf_area, typed) ELSE "",
                         IF ospf THEN ospf_stub_for(first_ospf_area, typed) ELSE FALSE,
                         {})
       IN  /\ first_ospf_area' = IF ospf /\ first_ospf_area = "" THEN data.ospf_area
                                 ELSE first_ospf_area
           /\ routers' = routers @@ (rname :> data)
           /\ \E answers \in SeqsOfLen(Answers,
                                 IF MultiAreaData(data) THEN Len(asked_keys(data)) ELSE 0) :
                 /\ files' = files @@ (rname :> File(frr_conf(data, answers)))
                 /\ prompts' = typed \o answers
           /\ frrdir' = frrdir @@ (rname :> frr_dir(rname, data))
           /\ startup' = startup @@ (rname :> File(RouterStartup(data)))
    /\ pc' = pc + 1
    /\ UNCHANGED <<steps, ran, orig, marks, ret, lastcall, fn_args, fn_result>>

\* collapse_interface_networks called on a list of addresses
Collapse(ips) ==
    /\ ran = {}
    /\ fn_args' = ips
    /\ fn_result' = collapse_interface_networks(ips)
    /\ ran' = {"collapse"}
    /\ UNCHANGED <<routers, files, startup, frrdir, pc, steps, orig, marks, ret,
                   lastcall, first_ospf_area, prompts>>

\* collapse_interface_networks called on the list it returned
CollapseAgain ==
    /\ ran = {"collapse"}
    /\ fn_args' = fn_result
    /\ fn_result' = collapse_interface_networks(fn_result)
    /\ ran' = {"collapse", "again"}
    /\ UNCHANGED <<routers, files, startup, frrdir, pc, steps, orig, marks, ret,
                   lastcall, first_ospf_area, prompts>>

\* the directives a caller may hand to a stanza builder
Redistributes == {None, <<"connected">>, <<"ospf", "rip">>}

\* the three stanza builders called on the networks of a router with a
\* `redistribute` argument
MkStanzas(r, redistribute) ==
    /\ pc = 0
    /\ fn_args = <<>>
    /\ fn_args' = <<r, redistribute>>
    /\ fn_result' = mk_bgp_stanza(routers[r].asn, redistribute, original_nets(routers[r]))
                    \o mk_ospf_stanza(aggregated_nets(routers[r]), routers[r].ospf_area,
                                      routers[r].ospf_area_stub, redistribute)
                    \o mk_rip_stanza(aggregated_nets(routers[r]), redistribute)
    /\ UNCHANGED <<routers, files, startup, frrdir, pc, steps, ran, orig, marks, ret,
                   lastcall, first_ospf_area, prompts>>

-----------------------------------------------------------------------------
(* The stanza editor on a file of its own *)

EditName == "frr.conf"

NoCall == [proto |-> "", asn |-> <<>>, lines |-> <<>>]

Mark(by, line) == [by |-> by, line |-> line]

\* one call of insert_lines_into_protocol_block on the file
InsertLines(proto, asn, lines) ==
    /\ steps < MaxInserts
    /\ LET f   == files[EditName]
           res == insert_lines_into_protocol_block(f, proto, asn, lines)
           new == [i \in DOMAIN lines |->
                      Mark(IF res.found THEN "block" ELSE "append", lines[i])]
           sep == [i \in 1..(Len(res.file.lines) - Len(f.lines) - Len(lines)) |->
                      Mark("newline", Blank)]
       IN  /\ files' = [files EXCEPT ![EditName] = res.file]
           /\ ret' = res.ret
           /\ marks' = IF ~ res.ret THEN marks
                       ELSE SubSeq(marks, 1, res.at - Len(sep) - 1) \o sep \o new
                            \o SubSeq(marks, res.at - Len(sep), Len(marks))
    /\ lastcall' = [proto |-> proto, asn |-> asn, lines |-> lines]
    /\ steps' = steps + 1
    /\ UNCHANGED <<routers, startup, frrdir, pc, ran, orig>>
    /\ UNCHANGED <<first_ospf_area, prompts, fn_args, fn_result>>

-----------------------------------------------------------------------------
(* Inputs *)

NoRouters == [n \in {} |-> 0]

\* the addresses an interface may be given
IfacePool ==
    {Cidr(10, 0, 0, 1, 24), Cidr(10, 0, 1, 1, 24), Cidr(10, 1, 0, 0, 24),
     Cidr(10, 1, 1, 0, 24), Cidr(10, 2, 0, 0, 24), Cidr(11, 1, 0, 0, 24),
     Cidr(10, 1, 0, 1, 8), Cidr(9, 9, 9, 9, 32)}

\* the addresses typed into the interface table of the router dialog: with a
\* prefix or without one
UnvalidatedPool ==
    {Cidr(10, 0, 0, 1, 24), Cidr(10, 0, 1, 1, 24), Cidr(11, 1, 0, 0, 24),
     Cidr(10, 0, 0, 1, -1), Cidr(10, 0, 2, 2, -1), Cidr(11, 1, 0, 0, -1)}

\* the addresses a loopback may be given
LoopbackPool == {Cidr(9, 9, 9, 9, 32), Cidr(10, 1, 9, 9, 32)}

\* protocols, asn, ospf_area, ospf_area_stub, ospf_extra_areas of one router
RenderConfigs ==
    {<<{"bgp", "ospf", "rip"}, <<1, 0, 0>>, "", FALSE, {}>>,
     <<{"bgp", "ospf", "rip"}, <<1, 0, 0>>, "2.2.2.2", TRUE,
       {[k |-> 11, area |-> "3.3.3.3", stub |-> FALSE]}>>,
     <<{"ospf"}, <<>>, "0.0.0.0", FALSE, {}>>,
     <<{"ospf"}, <<>>, "1.1.1.1", FALSE, {}>>,
     <<{"bgp"}, <<2, 0>>, "", FALSE, {}>>,
     <<{"rip"}, <<>>, "", FALSE, {}>>,
     <<{"statico"}, <<>>, "", FALSE, {}>>,
     <<{"bgp", "statico"}, <<2, 0>>, "", FALSE, {}>>}

\* interfaces eth0, eth1, ... on LAN A with the addresses of `ips`
IfacesOf(ips) == [i \in DOMAIN ips |-> Iface(IfName(i), "A", ips[i])]

RenderData(cfg, ips, lbs) ==
    Data(cfg[1], cfg[2], IfacesOf(ips), lbs, cfg[3], cfg[4], cfg[5])

\* the routers of the peering topologies: BGP routers of AS 1 and AS 2 with
\* one or two interfaces on LAN A and at most one loopback, a BGP router
\* without AS number, an OSPF router and a static one
PeerIfaces ==
    {<<Iface("eth0", "A", Cidr(10, 0, 0, 1, 24))>>,
     <<Iface("eth0", "A", Cidr(10, 0, 0, 2, 24))>>,
     <<Iface("eth0", "A", Cidr(10, 0, 0, 3, 24)), Iface("eth1", "A", Cidr(10, 0, 0, 4, 24))>>}

PeerLoopbacks == {<<>>, <<Cidr(1, 1, 1, 1, 32)>>, <<Cidr(10, 0, 0, 2, 32), Cidr(2, 2, 2, 2, 32)>>}

PeerProfiles ==
    {Data({"bgp"}, asn, ifs, lbs, "", FALSE, {}) :
        asn \in {<<1>>, <<2>>}, ifs \in PeerIfaces, lbs \in PeerLoopbacks}
    \cup {Data({"bgp"}, <<>>, <<Iface("eth0", "A", Cidr(10, 0, 0, 1, 24))>>,
               <<Cidr(1, 1, 1, 1, 32)>>, "", FALSE, {}),
          Data({"ospf"}, <<>>, <<Iface("eth0", "A", Cidr(10, 0, 0, 1, 24))>>,
               <<Cidr(1, 1, 1, 1, 32)>>, "0.0.0.0", FALSE, {}),
          Data({"statico"}, <<1>>, <<Iface("eth0", "A", Cidr(10, 0, 0, 2, 24))>>,
               <<Cidr(1, 1, 1, 1, 32)>>, "", FALSE, {})}

\* the routers of the two-router topologies on which every operation runs
MenuProfiles ==
    {Data(pa[1], pa[2], ifs, lbs, "", FALSE, {}) :
        pa \in {<<{"bgp", "ospf", "rip"}, <<1>>>>, <<{"bgp"}, <<2>>>>},
        ifs \in {<<Iface("eth0", "A", Cidr(10, 0, 0, 1, 24))>>,
                 <<Iface("eth0", "A", Cidr(10, 0, 0, 2, 24)),
                   Iface("eth1", "B", Cidr(9, 9, 9, 9, 32))>>},
        lbs \in {<<>>, <<Cidr(1, 1, 1, 1, 32)>>}}
    \cup {Data({"statico"}, <<>>, <<Iface("eth0", "A", Cidr(10, 0, 0, 3, 24))>>,
               <<>>, "", FALSE, {})}

\* the addresses typed into the menus
MenuLoopbacks == {<<9, 9, 9, 9>>, <<1, 1, 1, 1>>}

MenuNeighbors == {<<10, 0, 0, 9>>}

\* the lines of the files handed to the stanza editor
EditLines ==
    {RouterLine("bgp", <<1, 0, 0>>),
     RouterLine("bgp", <<2, 0, 0>>),
     NetworkLine(4, Cidr(1, 0, 0, 0, 8), ""),
     Plain(0, "!", ""),
     Blank,
     Plain(0, "route-map", "X permit 10"),
     RouterLine("ospf", <<>>)}

\* a file of at most MaxFileLen lines, the last one with or without its newline
EditFiles ==
    {NoFile}
    \cup {File(ls) : ls \in SeqsUpTo(EditLines, MaxFileLen)}
    \cup {File([ls EXCEPT ![Len(ls)].nl = FALSE]) :
             ls \in {l \in SeqsUpTo(EditLines, MaxFileLen) : l /= <<>> /\ l[Len(l)] /= Blank}}

\* proto, asn and lines of the calls made on them
EditCalls ==
    {<<"bgp", <<>>, <<NeighborRemoteAs(<<2, 2, 2, 2>>, <<2, 0, 0>>)>>>>,
     <<"bgp", <<2, 0, 0>>, <<NeighborRemoteAs(<<3, 3, 3, 3>>, <<2, 0, 0>>),
                             NeighborUpdateSource(<<3, 3, 3, 3>>, <<1, 1, 1, 1>>)>>>>,
     <<"ospf", <<>>, <<NetworkLine(0, Cidr(9, 9, 9, 9, 32), "0.0.0.0")>>>>}

-----------------------------------------------------------------------------
(* Specifications *)

TopologyInit(rs) ==
    /\ routers = rs
    /\ files = [n \in DOMAIN rs |-> NoFile]
    /\ startup = [n \in DOMAIN rs |-> NoFile]
    /\ frrdir = [n \in DOMAIN rs |-> NoFrrDir]
    /\ pc = 0
    /\ steps = 0
    /\ ran = {}
    /\ orig = NoEdit
    /\ marks = NoEdit
    /\ ret = FALSE
    /\ lastcall = NoCall
    /\ first_ospf_area = ""
    /\ prompts = <<>>
    /\ fn_args = <<>>
    /\ fn_result = <<>>

\* one router, any addressing: rendering of its files
InitRender ==
    \E cfg \in RenderConfigs, ips \in SeqsUpTo(IfacePool, MaxIfaces),
       lbs \in SeqsUpTo(LoopbackPool, MaxLoopbacks) :
        TopologyInit([n \in {"r1"} |-> RenderData(cfg, ips, lbs)])

NextRender ==
    \/ CreaRouterFiles
    \/ \E ip \in MenuLoopbacks, area \in {"", "2.2.2.2"} : AggiungiLoopback("r1", ip, area)

SpecRender == InitRender /\ [][NextRender]_vars

\* three routers on a LAN: the automatic peering derivations
InitPeer == \E rs \in [{"r1", "r2", "r3"} -> PeerProfiles] : TopologyInit(rs)

NextPeer ==
    \/ CreaRouterFiles
    \/ AutoGenerateBgpNeighbors
    \/ AddIbgpLoopbackNeighbors

SpecPeer == InitPeer /\ [][NextPeer]_vars

\* two routers: every operation, in any order
Init == \E rs \in [{"r1", "r2"} -> MenuProfiles] : TopologyInit(rs)

Next ==
    \/ CreaRouterFiles
    \/ AutoGenerateBgpNeighbors
    \/ AddIbgpLoopbackNeighbors
    \/ \E r \in DOMAIN routers, ip \in MenuLoopbacks, area \in {"", "2.2.2.2"} :
          AggiungiLoopback(r, ip, area)
    \/ \E src \in DOMAIN routers, dst \in DOMAIN routers, ip \in MenuNeighbors,
          pol \in BOOLEAN : AggiungiRelazioneBgp(src, dst, ip, pol)
    \/ \E src \in DOMAIN routers, ip \in MenuNeighbors :
          PoliciesPrefixList(src, ip, <<3>>, Cidr(100, 200, 0, 1, 16))

Spec == Init /\ [][Next]_vars

\* two routers: the operations that write configuration on their own, and the
\* stanza builders handed a `redistribute` argument
NextAuto ==
    \/ CreaRouterFiles
    \/ AutoGenerateBgpNeighbors
    \/ AddIbgpLoopbackNeighbors
    \/ \E r \in DOMAIN routers, ip \in MenuLoopbacks, area \in {"", "2.2.2.2"} :
          AggiungiLoopback(r, ip, area)
    \/ \E r \in DOMAIN routers, redistribute \in Redistributes : MkStanzas(r, redistribute)

SpecAuto == Init /\ [][NextAuto]_vars

\* one router whose addresses are taken as they were typed
InitUnvalidated ==
    \E cfg \in RenderConfigs, ips \in SeqsUpTo(UnvalidatedPool, MaxIfaces) :
        TopologyInit([n \in {"r1"} |-> RenderData(cfg, ips, <<>>)])

NextUnvalidated == CreaRouterFiles

SpecUnvalidated == InitUnvalidated /\ [][NextUnvalidated]_vars

\* the protocols and AS number typed for a router
AuthorProtocols == {<<{"bgp"}, <<1>>>>, <<{"ospf"}, <<>>>>, <<{"ospf", "rip"}, <<>>>>}

\* interactive authoring: the routers are configured one after the other
InitAuthor == TopologyInit(NoRouters)

NextAuthor ==
    \E pa \in AuthorProtocols, n_if \in 1..MaxIfaces, shared \in BOOLEAN :
      \E typed \in TypedFor(pa[1], first_ospf_area) :
        ConfiguraRouter(pa[1], pa[2], typed,
            [idx \in 1..n_if |->
                IF shared /\ idx = 1 THEN Cidr(10, 0, 9, 9, 24)
                ELSE SuggestedIp(Cardinality(DOMAIN routers) + 1, idx - 1)])

SpecAuthor == InitAuthor /\ [][NextAuthor]_vars

\* the addresses of the lists handed to collapse_interface_networks: siblings,
\* nested networks, networks apart
CollapsePool ==
    {Cidr(10, 0, 0, 1, 24), Cidr(10, 0, 1, 1, 24), Cidr(10, 0, 2, 1, 23),
     Cidr(10, 0, 0, 5, 30), Cidr(10, 1, 0, 1, 8), Cidr(11, 1, 0, 0, 8),
     Cidr(9, 9, 9, 9, 32), Cidr(9, 9, 9, 8, 32), Cidr(10, 0, 0, 1, -1)}

\* collapse_interface_networks on a list of its own
InitCollapse == TopologyInit(NoRouters)

NextCollapse ==
    \/ \E ips \in SeqsUpTo(CollapsePool, MaxNets) : Collapse(ips)
    \/ CollapseAgain

SpecCollapse == InitCollapse /\ [][NextCollapse]_vars

\* the stanza editor on one file
InitEdit ==
    \E f \in EditFiles :
        /\ routers = NoRouters
        /\ files = [n \in {EditName} |-> f]
        /\ startup = NoRouters
        /\ frrdir = NoRouters
        /\ pc = 0
        /\ steps = 0
        /\ ran = {}
        /\ orig = f.lines
        /\ marks = [i \in DOMAIN f.lines |-> Mark("file", f.lines[i])]
        /\ ret = FALSE
        /\ lastcall = NoCall
        /\ first_ospf_area = ""
        /\ prompts = <<>>
        /\ fn_args = <<>>
        /\ fn_result = <<>>

NextEdit == \E c \in EditCalls : InsertLines(c[1], c[2], c[3])

SpecEdit == InitEdit /\ [][NextEdit]_vars

-----------------------------------------------------------------------------
(* Properties *)

\* the networks on the `network` lines of the first `router <proto>` stanza
StanzaNetworks(content, proto) ==
    LET idx   == FindHeader(content, proto, <<>>)
        st    == IF idx = 0 THEN <<>> ELSE StanzaAt(content, idx)
        lines == SelectSeq(st, LAMBDA l : l.kw = "network")
    IN  [i \in DOMAIN lines |-> [a |-> lines[i].ip, p |-> lines[i].plen]]

\* the network of an address: its host bits cleared, its prefix length kept
MaskedNet(c) == [a |-> Mask(c.a, c.p), p |-> c.p]

PhysNets(r) == {MaskedNet(routers[r].interfaces[i].ip) : i \in DOMAIN routers[r].interfaces}

LoopbackNets(r) == {MaskedNet(routers[r].loopbacks[i]) : i \in DOMAIN routers[r].loopbacks}

\* C1: for every BGP-enabled device, the CIDRs on the network lines of the
\* router bgp stanza written by crea_router_files are exactly the masked
\* networks of its physical interfaces, each with its original prefix length
\* (nothing supernetted or collapsed, nothing added for a loopback).
C1_BgpNetworksArePhysical ==
    \A r \in DOMAIN routers :
        ("bgp" \in routers[r].protocols /\ files[r].exists)
        => Range(StanzaNetworks(files[r].lines, "bgp")) = PhysNets(r)

\* interfaces 10.0.0.1/24 and 10.0.1.1/24 plus loopback 9.9.9.9/32 give exactly
\* 10.0.0.0/24 and 10.0.1.0/24
C1_Example ==
    /\ files["r1"].exists
    /\ "bgp" \in routers["r1"].protocols
    /\ phys_iface_ips(routers["r1"]) = <<Cidr(10, 0, 0, 1, 24), Cidr(10, 0, 1, 1, 24)>>
    /\ routers["r1"].loopbacks = <<Cidr(9, 9, 9, 9, 32)>>
    /\ StanzaNetworks(files["r1"].lines, "bgp")
         = <<Cidr(10, 0, 0, 0, 24), Cidr(10, 0, 1, 0, 24)>>

ShareFirstOctet(ips) == \A i, j \in DOMAIN ips : ips[i].a[1] = ips[j].a[1]

\* the addresses of the device all have the same first two octets
ShareFirstTwoOctets(ips) ==
    \A i, j \in DOMAIN ips : ips[i].a[1] = ips[j].a[1] /\ ips[i].a[2] = ips[j].a[2]

\* frr.conf of r is as crea_router_files wrote it
AsCreated(r) == files[r].exists /\ steps = 0

\* C3 as stated: for a RIP-enabled device whose physical and loopback addresses
\* all share the first octet, the router rip stanza written by
\* crea_router_files has exactly one network line, of prefix length 8 or 16,
\* and every physical and loopback network of the device is a subnet of it.
C3_RipSupernetCoversNetworks ==
    \A r \in DOMAIN routers :
        LET ips  == combined_ips(routers[r])
            nets == StanzaNetworks(files[r].lines, "rip")
        IN  ("rip" \in routers[r].protocols /\ AsCreated(r)
               /\ ips /= <<>> /\ ShareFirstOctet(ips))
            => /\ Len(nets) = 1
               /\ nets[1].p \in {8, 16}
               /\ \A i \in DOMAIN ips :
                     /\ nets[1].p <= ips[i].p
                     /\ Mask(ips[i].a, nets[1].p) = nets[1].a

First(S) == CHOOSE k \in S : \A m \in S : k <= m

\* C5: when the call finds the header, the lines go, indented, right before
\* the first line after the header that is neither blank, nor indented, nor a
\* `!` line, or at the end of the file when there is no such line.
C5_InsertionPoint ==
    [][LET old   == files[EditName].lines
           new   == files'[EditName].lines
           c     == lastcall'
           n     == Len(c.lines)
           h     == FindHeader(old, c.proto, c.asn)
           stops == {k \in (h + 1)..Len(old) :
                        ~ (old[k].kw = "" \/ old[k].ind > 0 \/ old[k].kw = "!")}
           j     == IF stops = {} THEN Len(old) + 1 ELSE First(stops)
       IN  (files[EditName].exists /\ h > 0)
           => /\ ret'
              /\ Len(new) = Len(old) + n
              /\ \A i \in 1..n : new[j - 1 + i] = Indent4(c.lines[i])
              /\ \A i \in 1..(j - 1) : TextOf(new[i]) = TextOf(old[i])
              /\ \A i \in j..Len(old) : new[i + n] = old[i]]_vars

\* router bgp 100 / network 1.0.0.0/8 / ! / route-map X permit 10: the neighbor
\* line is after the `!` line and before the route-map
C5_Example ==
    /\ ret
    /\ orig = <<RouterLine("bgp", <<1, 0, 0>>), NetworkLine(4, Cidr(1, 0, 0, 0, 8), ""),
               Plain(0, "!", ""), Plain(0, "route-map", "X permit 10")>>
    /\ files[EditName].lines
         = <<RouterLine("bgp", <<1, 0, 0>>), NetworkLine(4, Cidr(1, 0, 0, 0, 8), ""),
             Plain(0, "!", ""),
             Indent4(NeighborRemoteAs(<<2, 2, 2, 2>>, <<2, 0, 0>>)),
             Plain(0, "route-map", "X permit 10")>>

\* the lines of the file that no call wrote, in file order, without terminator
KeptLines ==
    LET lines == files[EditName].lines
        idx   == SelectSeq([i \in DOMAIN lines |-> i], LAMBDA i : marks[i].by = "file")
    IN  [k \in DOMAIN idx |-> TextOf(lines[idx[k]])]

\* C6: after any sequence of calls, the lines that were in the file before are
\* all there, with the same text and in the same order: without the lines the
\* calls wrote (the caller's lines, with 4 more blanks when put into a stanza,
\* and the separating empty line of an append) the file is the original one.
C6_Frame ==
    LET lines == files[EditName].lines
    IN  /\ Len(marks) = Len(lines)
        /\ KeptLines = [i \in DOMAIN orig |-> TextOf(orig[i])]
        /\ \A i \in DOMAIN lines :
              /\ marks[i].by = "block" => lines[i] = Indent4(marks[i].line)
              /\ marks[i].by = "append" => lines[i] = marks[i].line
              /\ marks[i].by = "newline" => lines[i] = Blank

\* two calls on a file of several lines, one into a stanza and one appended
C6_TwoInserts ==
    /\ steps = 2
    /\ Len(orig) >= 3
    /\ \E i, k \in DOMAIN marks : marks[i].by = "block" /\ marks[k].by = "append"

\* C7: when the file can be read and has no header for the call, the call
\* succeeds: the file is its previous content, a newline when that content is
\* not empty, and the caller's lines as they are.
C7_AppendFallback ==
    [][LET old == files[EditName].lines
           new == files'[EditName].lines
           c   == lastcall'
           n   == Len(c.lines)
           m   == Len(old)
       IN  (files[EditName].exists /\ FindHeader(old, c.proto, c.asn) = 0)
           => /\ ret'
              /\ Len(new) >= m + n
              /\ SubSeq(new, Len(new) - n + 1, Len(new)) = c.lines
              /\ \A i \in 1..(m - 1) : new[i] = old[i]
              /\ m = 0 => Len(new) = n
              /\ m > 0 => /\ TextOf(new[m]) = TextOf(old[m])
                          /\ new[m].nl
                          /\ IF old[m].nl
                             THEN Len(new) = m + 1 + n /\ new[m + 1] = Blank
                             ELSE Len(new) = m + n]_vars

\* lines appended to a file that has content and no header for them
C7_Appended ==
    /\ ret
    /\ steps = 1
    /\ orig /= <<>>
    /\ \E i \in DOMAIN marks : marks[i].by = "newline"
    /\ \E i \in DOMAIN marks : marks[i].by = "append"

\* the asns on the `neighbor <ip> remote-as` lines of a file, one per line
RemoteAsOf(content, ip) ==
    LET lines == SelectSeq(content, LAMBDA l :
                     l.kw = "neighbor" /\ l.arg = "remote-as" /\ l.ip = ip)
    IN  [i \in DOMAIN lines |-> lines[i].asn]

\* every address that has a `neighbor <ip> remote-as` line in the file
NeighborAddresses(content) ==
    {content[i].ip : i \in {k \in DOMAIN content :
                               content[k].kw = "neighbor" /\ content[k].arg = "remote-as"}}

Bgp(r) == "bgp" \in routers[r].protocols

\* a step that runs again a derivation that has already run
Rerun == "again" \in ran' /\ ran' \ {"again"} = ran \ {"again"}

\* C8: running auto_generate_bgp_neighbors or add_ibgp_loopback_neighbors
\* again, in any order, changes no file, and no file ever has two
\* `neighbor <ip> remote-as` lines for the same address.
C8_PeeringIdempotent ==
    [][/\ Rerun => files' = files
       /\ \A r \in DOMAIN routers :
             \A ip \in NeighborAddresses(files'[r].lines) :
                Len(RemoteAsOf(files'[r].lines, ip)) = 1]_vars

\* both derivations have run, one of them twice, and left lines of both kinds
C8_RanAgain ==
    /\ {"auto", "ibgp", "again"} \subseteq ran
    /\ \E r \in DOMAIN routers :
          /\ \E i \in DOMAIN files[r].lines : files[r].lines[i].arg = "description"
          /\ \E i \in DOMAIN files[r].lines : files[r].lines[i].arg = "update-source"

\* the topology is freshly generated and auto_generate_bgp_neighbors has run on it
AfterAuto == Created /\ ran = {"auto"} /\ steps = 0

\* a and b have interfaces in the same collision domain; x is b's address there
OnSharedLan(a, b, x) ==
    \E i \in DOMAIN routers[a].interfaces, k \in DOMAIN routers[b].interfaces :
        /\ routers[a].interfaces[i].lan /= ""
        /\ routers[a].interfaces[i].lan = routers[b].interfaces[k].lan
        /\ (a /= b \/ i /= k)
        /\ routers[b].interfaces[k].ip.a = x

\* the addresses of the interfaces of b
IfaceAddresses(b) == {routers[b].interfaces[k].ip.a : k \in DOMAIN routers[b].interfaces}

Claimants(a, x) ==
    {routers[c].asn : c \in {d \in DOMAIN routers : Bgp(a) /\ Bgp(d) /\ OnSharedLan(a, d, x)}}

IbgpPair(a, b) ==
    /\ a /= b
    /\ Bgp(a) /\ Bgp(b)
    /\ routers[a].asn /= <<>> /\ routers[a].asn = routers[b].asn
    /\ routers[a].loopbacks /= <<>> /\ routers[b].loopbacks /= <<>>
    /\ files[a].exists /\ files[b].exists

\* the `router bgp <asn>` stanza of a file
BgpStanza(content, asn) ==
    LET idx == FindHeader(content, "bgp", asn)
    IN  IF idx = 0 THEN <<>> ELSE StanzaAt(content, idx)

FirstLoopback(r) == routers[r].loopbacks[1].a

\* the first run of add_ibgp_loopback_neighbors
IbgpRuns == "ibgp" \in ran' /\ "ibgp" \notin ran

OspfAreaOctets(content, area) ==
    LET idx == FindHeader(content, "ospf", <<>>)
        st  == IF idx = 0 THEN <<>> ELSE StanzaAt(content, idx)
    IN  {st[i].ip[1] : i \in {k \in DOMAIN st : /\ st[k].kw = "network"
                                                /\ st[k].arg = "area"
                                                /\ st[k].txt = area}}

\* the orderings of a list
Reorderings(s) ==
    {[i \in DOMAIN s |-> s[f[i]]] :
        f \in {g \in [DOMAIN s -> DOMAIN s] : \A i, j \in DOMAIN s : g[i] = g[j] => i = j}}

\* the operator's answers for the groups he is asked about, none of them the
\* main area of the device
OtherAreaAnswers(data) ==
    SeqsOfLen({a \in Answers : a.area /= main_area_id(data)}, Len(asked_keys(data)))

\* the addresses of the device fall into more than one first-octet group
MultiArea(data) ==
    "ospf" \in data.protocols /\ Len(FirstOctetKeys(combined_ips(data))) > 1

\* C11 as stated: for an OSPF device with more than one first-octet group, the
\* router ospf stanza crea_router_files writes gives the main area to the
\* networks of the same first-octet group for every ordering of the interfaces
\* of the device.
C11_MainAreaOrderIndependent ==
    \A r \in DOMAIN routers :
        LET data == routers[r]
        IN  (AsCreated(r) /\ MultiArea(data))
            => \A perm \in Reorderings(data.interfaces) :
                  LET pd == [data EXCEPT !.interfaces = perm]
                  IN  \A a1 \in OtherAreaAnswers(data), a2 \in OtherAreaAnswers(pd) :
                         files[r].lines = frr_conf(data, a1)
                         => OspfAreaOctets(frr_conf(pd, a2), main_area_id(data))
                              = OspfAreaOctets(files[r].lines, main_area_id(data))

\* the networks the router ospf stanza tags with `area`
OspfAreaNets(content, area) ==
    LET idx == FindHeader(content, "ospf", <<>>)
        st  == IF idx = 0 THEN <<>> ELSE StanzaAt(content, idx)
    IN  {[a |-> st[i].ip, p |-> st[i].plen] :
            i \in {k \in DOMAIN st : /\ st[k].kw = "network"
                                     /\ st[k].arg = "area"
                                     /\ st[k].txt = area}}

\* the address is inside one of the networks
Covered(addr, nets) == \E n \in nets : Mask(addr, n.p) = n.a

\* the first-octet groups with the most addresses
LargestGroups(ips) ==
    {k \in Range(FirstOctetKeys(ips)) :
        \A m \in Range(FirstOctetKeys(ips)) : Len(GroupOf(ips, m)) <= Len(GroupOf(ips, k))}

\* the main area of the device: the configured one, the backbone when none is
ConfiguredMainArea(data) == IF data.ospf_area = "" THEN "0.0.0.0" ELSE data.ospf_area

\* C12: when the physical and loopback addresses of an OSPF device fall into
\* more than one first-octet group, the addresses of a group with the most
\* addresses are all under network lines tagged with the configured main area
\* (0.0.0.0 when none is configured), and every loopback of the device has its
\* own network line in the main area or is covered by one, whatever its first
\* octet.
C12_MainGroupAndLoopbacksInMainArea ==
    \A r \in DOMAIN routers :
        LET data == routers[r]
            ips  == combined_ips(data)
            main == OspfAreaNets(files[r].lines, ConfiguredMainArea(data))
        IN  (AsCreated(r) /\ MultiArea(data))
            => /\ \E k \in LargestGroups(ips) :
                     \A i \in DOMAIN ips : ips[i].a[1] = k => Covered(ips[i].a, main)
               /\ \A i \in DOMAIN data.loopbacks :
                     \/ MaskedNet(data.loopbacks[i]) \in main
                     \/ Covered(data.loopbacks[i].a, main)

\* interfaces 10.0.0.1/24 and 10.0.1.1/24 and loopback 9.9.9.9/32, no area
\* configured: the backbone has 10.0.0.0/23 and 9.9.9.9/32
C12_LoopbackOfAnotherOctet ==
    /\ AsCreated("r1")
    /\ "ospf" \in routers["r1"].protocols
    /\ routers["r1"].ospf_area = ""
    /\ combined_ips(routers["r1"])
         = <<Cidr(10, 0, 0, 1, 24), Cidr(10, 0, 1, 1, 24), Cidr(9, 9, 9, 9, 32)>>
    /\ OspfAreaNets(files["r1"].lines, "0.0.0.0")
         = {Cidr(10, 0, 0, 0, 23), Cidr(9, 9, 9, 9, 32)}

\* the areas flagged stub while the files of the device were created: the main
\* area when the device says so, the area supplied for another group when it
\* says so, the area the operator answered and marked, and the placeholder
\* area 1.1.1.1 of an empty answer
FlaggedStub(data, given) ==
    (IF data.ospf_area_stub THEN {ConfiguredMainArea(data)} ELSE {})
    \cup {e.area : e \in {x \in data.ospf_extra_areas :
                            /\ x.stub
                            /\ x.k \in Range(other_keys(data))}}
    \cup {given[i].area : i \in {k \in DOMAIN given : given[k].area /= "" /\ given[k].stub}}
    \cup (IF \E i \in DOMAIN given : given[i].area = "" THEN {"1.1.1.1"} ELSE {})

\* C13: the multi-area output is one router ospf stanza; in it every network
\* line comes before every `area <id> stub` line, the network lines of area
\* 0.0.0.0 come before those of every other area, and there is one
\* `area <id> stub` line for each area flagged stub and for no other.
C13_MultiAreaLayout ==
    \A r \in DOMAIN routers :
        LET data == routers[r]
            c    == files[r].lines
            hdrs == {i \in DOMAIN c : c[i].kw = "router" /\ c[i].arg = "ospf"}
            idx  == FindHeader(c, "ospf", <<>>)
            st   == StanzaAt(c, idx)
            nets == {i \in DOMAIN st : st[i].kw = "network"}
            stub == {i \in DOMAIN st : st[i].kw = "area" /\ st[i].arg = "stub"}
        IN  (AsCreated(r) /\ MultiArea(data))
            => /\ Cardinality(hdrs) = 1
               /\ \A i \in DOMAIN c :
                     (c[i].kw = "area" \/ (c[i].kw = "network" /\ c[i].arg = "area"))
                     => (idx < i /\ i < idx + Len(st))
               /\ \A i \in nets : st[i].arg = "area"
               /\ \A i \in nets, j \in stub : i < j
               /\ \A i, j \in nets :
                     (st[i].txt = "0.0.0.0" /\ st[j].txt /= "0.0.0.0") => i < j
               /\ {st[j].txt : j \in stub} = FlaggedStub(data, prompts)
               /\ \A i, j \in stub : st[i].txt = st[j].txt => i = j

\* interfaces 10.0.0.1/24 and 11.1.0.0/24 in the backbone, the area of the
\* second group left to the placeholder: backbone first, the stub line last
C13_BackboneThenStub ==
    /\ AsCreated("r1")
    /\ routers["r1"].protocols = {"ospf"}
    /\ phys_iface_ips(routers["r1"]) = <<Cidr(10, 0, 0, 1, 24), Cidr(11, 1, 0, 0, 24)>>
    /\ routers["r1"].loopbacks = <<>>
    /\ prompts = <<[area |-> "", stub |-> FALSE]>>
    /\ StanzaAt(files["r1"].lines, FindHeader(files["r1"].lines, "ospf", <<>>))
         = <<RouterLine("ospf", <<>>),
             NetworkLine(4, Cidr(10, 0, 0, 0, 16), "0.0.0.0"),
             NetworkLine(4, Cidr(11, 1, 0, 0, 16), "1.1.1.1"),
             AreaStubLine(4, "1.1.1.1"),
             Blank>>

\* C14: no line of a configuration file starts with `redistribute`, for any
\* device and protocol set and after crea_router_files, the peering
\* derivations and the addition of a loopback; and no line of the text a
\* stanza builder returns does, even when the builder is handed a
\* `redistribute` argument.
C14_NoRedistribute ==
    /\ \A r \in DOMAIN files :
          \A i \in DOMAIN files[r].lines : files[r].lines[i].kw /= "redistribute"
    /\ \A i \in DOMAIN fn_result : fn_result[i].kw /= "redistribute"

\* the builders were handed `redistribute ospf rip`, returned the three
\* stanzas, and the files of the routers were then created, peered and given
\* a loopback
C14_BuildersHandedRedistribute ==
    /\ fn_args /= <<>>
    /\ fn_args[2] = <<"ospf", "rip">>
    /\ \E i \in DOMAIN fn_result : fn_result[i].kw = "router" /\ fn_result[i].arg = "rip"
    /\ Created
    /\ steps > 0
    /\ "auto" \in ran
    /\ \E r \in DOMAIN files : files[r].exists

\* the protocol set of the device holds the static token and nothing else
StaticOnly(r) == routers[r].protocols = {"statico"}

\* the lines `ip address add <cidr> dev <name>` of the interfaces of the device
\* and `ip address add <cidr> dev lo` of its loopbacks
AddressLines(r) ==
    {IpAddressAdd(routers[r].interfaces[i].ip, routers[r].interfaces[i].name) :
        i \in DOMAIN routers[r].interfaces}
    \cup {IpAddressAdd(routers[r].loopbacks[i], "lo") : i \in DOMAIN routers[r].loopbacks}

RoutingProtocols(r) == routers[r].protocols \cap {"bgp", "ospf", "rip"}

\* the numbers of the `router <proto>` lines of the text
Headers(content, proto) ==
    {i \in DOMAIN content : content[i].kw = "router" /\ content[i].arg = proto}

\* the device has no interface and no loopback and its files are as created
NoAddresses(r) == AsCreated(r) /\ combined_ips(routers[r]) = <<>>

\* C16 as stated: for a device without interfaces and loopbacks rendering
\* completes, no protocol announces a network, and no stanza is written for a
\* protocol that announces nothing.
C16_NoStanzaWithoutNetworks ==
    \A r \in DOMAIN routers :
        NoAddresses(r)
        => \A proto \in RoutingProtocols(r) :
              /\ StanzaNetworks(files[r].lines, proto) = <<>>
              /\ Headers(files[r].lines, proto) = {}

\* C16 amended: for a device without interfaces and loopbacks rendering
\* completes, no protocol announces a network, and the stanza written for a
\* protocol that announces nothing is there with its header and without any
\* network line.
C16_StanzaWithoutNetworkLines ==
    \A r \in DOMAIN routers :
        (Created /\ steps = 0 /\ combined_ips(routers[r]) = <<>> /\ ~ StaticOnly(r))
        => /\ files[r].exists
           /\ \A i \in DOMAIN files[r].lines : files[r].lines[i].kw /= "network"
           /\ \A proto \in RoutingProtocols(r) :
                 Cardinality(Headers(files[r].lines, proto)) = 1

\* a device with BGP, OSPF and RIP and no address: three stanzas, no network
C16_ThreeEmptyStanzas ==
    /\ NoAddresses("r1")
    /\ routers["r1"].protocols = {"bgp", "ospf", "rip"}
    /\ \A proto \in {"bgp", "ospf", "rip"} :
          /\ Headers(files["r1"].lines, proto) /= {}
          /\ StanzaNetworks(files["r1"].lines, proto) = <<>>

\* the numbers of the `router ...` lines of the text
RouterHeaders(content) == {i \in DOMAIN content : content[i].kw = "router"}

\* C17 as stated: in the frr.conf crea_router_files writes for a device with
\* two or more routing protocols, a `router ...` stanza that follows another
\* one is separated from it by exactly one blank line.
C17_OneBlankLineBetweenStanzas ==
    \A r \in DOMAIN routers :
        LET c == files[r].lines
        IN  (AsCreated(r) /\ Cardinality(RoutingProtocols(r)) >= 2)
            => \A j \in RouterHeaders(c) :
                  (\E i \in RouterHeaders(c) : i < j)
                  => /\ c[j - 1] = Blank
                     /\ c[j - 2] /= Blank

\* the addresses of the interfaces of the device typed without a prefix
\* length, and not typed as a /32 on another interface
Prefixless(r) ==
    {routers[r].interfaces[i].ip.a :
        i \in {k \in DOMAIN routers[r].interfaces : ~ HasPrefix(routers[r].interfaces[k].ip)}}
    \ {routers[r].interfaces[i].ip.a :
        i \in {k \in DOMAIN routers[r].interfaces : routers[r].interfaces[k].ip.p = 32}}

\* C18 as stated: an interface address without an explicit prefix length is
\* rejected and never taken for a /32: no network line of the configuration
\* file announces such an address as <address>/32.
C18_NoGuessedPrefix ==
    \A r \in DOMAIN routers :
        \A i \in DOMAIN files[r].lines :
            files[r].lines[i].kw = "network"
            => ~ (files[r].lines[i].plen = 32 /\ files[r].lines[i].ip \in Prefixless(r))

\* the routers configured so far that run OSPF
OspfRouters(rs) == {r \in DOMAIN rs : "ospf" \in rs[r].protocols}

\* C19: while the routers are configured one after the other, the default
\* OSPF area is unset as long as no OSPF router has been configured, is set by
\* the first OSPF router to the area of that router, never changes afterwards,
\* and is the area of every later OSPF router that is given no area of its own.
C19_DefaultAreaSetOnce ==
    [][ /\ (first_ospf_area = "") = (OspfRouters(routers) = {})
        /\ first_ospf_area /= "" => first_ospf_area' = first_ospf_area
        /\ \A r \in DOMAIN routers' \ DOMAIN routers :
              /\ r \notin OspfRouters(routers') => first_ospf_area' = first_ospf_area
              /\ (r \in OspfRouters(routers') /\ first_ospf_area = "")
                    => /\ first_ospf_area' /= ""
                       /\ first_ospf_area' = routers'[r].ospf_area
              /\ (r \in OspfRouters(routers') /\ first_ospf_area /= "" /\ prompts' = <<"">>)
                    => routers'[r].ospf_area = first_ospf_area
      ]_vars

\* r1 runs BGP only, r2 is the first OSPF router and is put in area 1.1.1.1,
\* r3 runs OSPF and is given no area: it is in area 1.1.1.1
C19_ThirdRouterInherits ==
    /\ DOMAIN routers = {"r1", "r2", "r3"}
    /\ routers["r1"].protocols = {"bgp"}
    /\ "ospf" \in routers["r2"].protocols
    /\ routers["r2"].ospf_area = "1.1.1.1"
    /\ "ospf" \in routers["r3"].protocols
    /\ prompts = <<"">>
    /\ routers["r3"].ospf_area = "1.1.1.1"
    /\ first_ospf_area = "1.1.1.1"

\* the upper half of a network: the bit after its prefix set
UpperHalf(n) ==
    LET i == (n.p \div 8) + 1
    IN  [a |-> [n.a EXCEPT ![i] = @ + Pow2(7 - (n.p % 8))], p |-> n.p + 1]

\* every address of the network n is in one of the networks of B
RECURSIVE CoveredBy(_, _)
CoveredBy(n, B) ==
    \/ \E b \in B : SubnetOf(n, b)
    \/ /\ n.p < 32
       /\ \E b \in B : SubnetOf(b, n)
       /\ CoveredBy([a |-> n.a, p |-> n.p + 1], B)
       /\ CoveredBy(UpperHalf(n), B)

\* the two sets of networks cover the same addresses
SameCoverage(A, B) ==
    /\ \A n \in A : CoveredBy(n, B)
    /\ \A n \in B : CoveredBy(n, A)

\* the network of an address as typed: an address without prefix is a /32
TypedNet(c) == IF c.p < 0 THEN [a |-> c.a, p |-> 32] ELSE MaskedNet(c)

\* C20: the list collapse_interface_networks returns covers the addresses the
\* masked networks of its input cover, no more and no fewer, and collapsing it
\* again returns the same list.
C20_CollapseIdempotentAndCovering ==
    /\ "collapse" \in ran
          => SameCoverage(Range(fn_result), {TypedNet(fn_args[i]) : i \in DOMAIN fn_args})
    /\ "again" \in ran => fn_result = fn_args

\* 10.0.0.1/24, 10.0.1.1/24 and 10.0.2.1/23 collapse to 10.0.0.0/22, and so
\* does 10.0.0.0/22
C20_ThreeIntoOne ==
    /\ ran = {"collapse", "again"}
    /\ fn_args = <<Cidr(10, 0, 0, 0, 22)>>
    /\ fn_result = <<Cidr(10, 0, 0, 0, 22)>>

\* the lines of the first `router <proto>` stanza of the text
Stanza(content, proto) ==
    LET idx == FindHeader(content, proto, <<>>)
    IN  IF idx = 0 THEN <<>> ELSE StanzaAt(content, idx)

\* C21 as stated: every network line of the router ospf stanza written by
\* crea_router_files has an `area <id>` tag with an area id, whether the device
\* has one first-octet group or several and whether or not it has a
\* configured ospf_area.
C21_OspfNetworksTagged ==
    \A r \in DOMAIN routers :
        LET st == Stanza(files[r].lines, "ospf")
        IN  (AsCreated(r) /\ "ospf" \in routers[r].protocols)
            => \A i \in DOMAIN st :
                  st[i].kw = "network" => (st[i].arg = "area" /\ st[i].txt /= "")

\* the byte-aligned network of a group of addresses with the same first octet
ByteAligned(group) ==
    IF ShareFirstTwoOctets(group) THEN Cidr(group[1].a[1], group[1].a[2], 0, 0, 16)
    ELSE Cidr(group[1].a[1], 0, 0, 0, 8)

\* C22 as stated: when the addresses of an OSPF device fall into several
\* first-octet groups, each group is announced by the byte-aligned network of
\* its own addresses (o1.o2.0.0/16 when they share two octets, o1.0.0.0/8
\* otherwise), whatever the addresses and loopbacks of the other groups.
C22_GroupAnnouncedByteAligned ==
    \A r \in DOMAIN routers :
        LET ips == combined_ips(routers[r])
        IN  (AsCreated(r) /\ MultiArea(routers[r]))
            => \A k \in Range(FirstOctetKeys(ips)) :
                  ByteAligned(GroupOf(ips, k))
                     \in Range(StanzaNetworks(files[r].lines, "ospf"))

\* C23 as stated: in the file crea_router_files writes, every line of a BGP,
\* OSPF or RIP stanza other than its header is indented by 4 blanks, and the
\* `area <id> stub` lines are inside the block of the router ospf stanza that
\* the stanza editor recognises.
C23_StanzaLinesIndented ==
    \A r \in DOMAIN routers :
        LET c   == files[r].lines
            idx == FindHeader(c, "ospf", <<>>)
        IN  AsCreated(r)
            => \A i \in DOMAIN c :
                  /\ c[i].kw \in {"network", "area", "no"} => c[i].ind = 4
                  /\ c[i].kw = "area"
                        => (idx > 0 /\ idx < i /\ i < idx + Len(StanzaAt(c, idx)))

\* the addresses of the `neighbor <ip> remote-as <asn>` lines of a's file whose
\* asn is a's own
OwnAsNeighbors(a) ==
    {files[a].lines[i].ip : i \in {k \in DOMAIN files[a].lines :
        /\ files[a].lines[k].kw = "neighbor"
        /\ files[a].lines[k].arg = "remote-as"
        /\ files[a].lines[k].asn = routers[a].asn}}

LoopbackAddresses(b) == {routers[b].loopbacks[k].a : k \in DOMAIN routers[b].loopbacks}

\* x is a loopback of another BGP device of a's ASN
LoopbackOfSameAs(a, x) ==
    \E b \in DOMAIN routers \ {a} :
        Bgp(b) /\ routers[b].asn = routers[a].asn /\ x \in LoopbackAddresses(b)

C26_NeverOwnNeighbor ==
    AfterAuto =>
        \A a \in DOMAIN routers : \A x \in IfaceAddresses(a) :
            (\A b \in DOMAIN routers \ {a} : x \notin IfaceAddresses(b))
            => x \notin NeighborAddresses(files[a].lines)

\* the lines of a file that start with `router <proto>`, and those of them
\* that contain the token
WithPrefix(content, proto) ==
    {k \in DOMAIN content : Lower(content[k].kw) = "router" /\ Lower(content[k].arg) = proto}

WithToken(content, proto, asn) ==
    {k \in WithPrefix(content, proto) : asn = <<>> \/ IsSubSeq(asn, content[k].asn)}

\* C25: a call on a readable file puts its lines, indented, into the stanza of
\* the first line that starts with `router <proto>` and, when a token is
\* given, contains it: the lines follow that header with nothing but lines of
\* its block in between, the headers before it that lack the token are left
\* as they are, and without such a line the lines are appended as they are.
C25_FirstMatchingHeader ==
    [][LET old  == files[EditName].lines
           new  == files'[EditName].lines
           c    == lastcall'
           n    == Len(c.lines)
           hits == WithToken(old, c.proto, c.asn)
       IN  files[EditName].exists
           => IF hits = {}
              THEN SubSeq(new, Len(new) - n + 1, Len(new)) = c.lines
              ELSE LET h == First(hits)
                   IN  \E j \in (h + 1)..(Len(old) + 1) :
                          /\ \A i \in 1..n : new[j - 1 + i] = Indent4(c.lines[i])
                          /\ \A k \in 1..(j - 1) : TextOf(new[k]) = TextOf(old[k])
                          /\ \A k \in (h + 1)..(j - 1) :
                                old[k].kw = "" \/ old[k].ind > 0 \/ old[k].kw = "!"]_vars

\* a call with the token 200 on a file with `router bgp 100` before
\* `router bgp 200`: the first header is passed over and the lines are in the
\* stanza of the second
C25_HeaderWithoutTokenSkipped ==
    /\ steps = 1
    /\ lastcall.asn = <<2, 0, 0>>
    /\ \E a, b \in DOMAIN orig :
          /\ a < b
          /\ orig[a] = RouterLine("bgp", <<1, 0, 0>>)
          /\ orig[b] = RouterLine("bgp", <<2, 0, 0>>)
          /\ marks[b + 1].by = "block"
          /\ \A k \in 1..b : marks[k].by = "file"

\* C27 as stated: in the multi-area stanza crea_router_files writes, a network
\* line that is not tagged with the main area neither equals nor covers a
\* loopback of the device, and covers the address of a physical interface (a
\* loopback makes no area of its own).
C27_LoopbacksInMainAreaOnly ==
    \A r \in DOMAIN routers :
        LET data == routers[r]
            st   == Stanza(files[r].lines, "ospf")
            phys == phys_iface_ips(data)
        IN  (AsCreated(r) /\ MultiArea(data))
            => \A i \in DOMAIN st :
                  (st[i].kw = "network" /\ st[i].txt /= ConfiguredMainArea(data))
                  => /\ \A k \in DOMAIN data.loopbacks :
                           Mask(data.loopbacks[k].a, st[i].plen) /= st[i].ip
                     /\ \E k \in DOMAIN phys : Mask(phys[k].a, st[i].plen) = st[i].ip

\* C28 as stated: in the multi-area stanza crea_router_files writes, the main
\* area has an `area <id> stub` line if and only if the stub flag of the
\* device is set, whatever areas the other groups are given.
C28_MainAreaStubIffFlagged ==
    \A r \in DOMAIN routers :
        LET data == routers[r]
            st   == Stanza(files[r].lines, "ospf")
        IN  (AsCreated(r) /\ MultiArea(data))
            => ((\E i \in DOMAIN st : /\ st[i].kw = "area"
                                      /\ st[i].arg = "stub"
                                      /\ st[i].txt = ConfiguredMainArea(data))
                <=> data.ospf_area_stub)

\* the lines `network <loopback>/32 ...` of the stanza of a protocol
LoopbackLines(r, proto) ==
    LET st == Stanza(files[r].lines, proto)
    IN  {i \in DOMAIN st :
            /\ st[i].kw = "network"
            /\ [a |-> st[i].ip, p |-> st[i].plen] \in Range(routers[r].loopbacks)
            /\ st[i].plen = 32}

\* C29 as stated: aggiungi_loopback_menu with a loopback the router already
\* has leaves its frr.conf as it is, and after any step no router ospf or
\* router rip stanza has two identical `network <loopback>/32` lines.
C29_LoopbackAddedOnce ==
    [][/\ (steps' = steps + 1 /\ routers' = routers) => files' = files
       /\ \A r \in DOMAIN routers : \A proto \in {"ospf", "rip"} :
             LET st == Stanza(files[r].lines, proto)'
             IN  \A i, j \in LoopbackLines(r, proto)' : st[i] = st[j] => i = j]_vars

\* C30 as stated: while the routers are configured one after the other, the
\* OSPF routers that are in the default area of the topology all have the same
\* stub flag, the one of the first OSPF router.
C30_DefaultAreaOneStubFlag ==
    \A r, q \in OspfRouters(routers) :
        (routers[r].ospf_area = first_ospf_area /\ routers[q].ospf_area = first_ospf_area)
        => routers[r].ospf_area_stub = routers[q].ospf_area_stub

====
